---- MODULE Spec2Model ----
(***************************************************************************)
(* The Monte Carlo projection engine of SlateRanker (src/lib/projections.ts *)
(* kept as src/unnamed/part_008), as a state machine: one invocation of     *)
(* monteCarloProject, from the call to the returned ProjectionResult.       *)
(*                                                                         *)
(* Numbers.  The code computes in IEEE doubles; the model computes in      *)
(* exact fixed point:                                                      *)
(*   - series values are whole stat counts (or a non-finite marker),       *)
(*   - line and clampMin are in hundredths  (line 1004 is 10.04),          *)
(*   - samples and the one-decimal result fields are in tenths,            *)
(*   - the series mean is the pair <<sum, n>>, the variance the pair       *)
(*     <<num, den>>; the standard deviation is floor(100*sqrt(var)),       *)
(*     in hundredths,                                                      *)
(*   - probability is in tenths of a percent (623 is 62.3),                *)
(*   - a field that may be NaN is <<"fin", v>> or <<"nan", 0>>.            *)
(* Math.round(x) is floor(x + 1/2), also for negative x.                   *)
(* randn(prng) returns a standard-normal deviate z in whole standard      *)
(* deviations: any z of ZValues with Math.random; with a seed, the z that  *)
(* the state of mulberry32 fixes (the generator is computed bit for bit on *)
(* 32-bit words, the Box-Muller product is kept to a whole number).        *)
(*                                                                         *)
(* Specifications:                                                         *)
(*   Spec         one invocation of monteCarloProject,                     *)
(*   SpecPair     two seeded invocations whose steps interleave,           *)
(*   SpecHelpers  the standard-deviation helpers of the repository, each   *)
(*                called on one array,                                     *)
(*   SpecSlate    analyzeSlate building the series of one prop:            *)
(*                seriesFromLogs, then series.slice(0, lastN),             *)
(*   SpecOverUnder  the same seeded input run once OVER and once UNDER,    *)
(*   SpecAnalyze  one call of analyzeSlate over an array of props, with    *)
(*                what the player search and the game-log fetch do,        *)
(*   SpecBdlFetch one call of bdlFetch (api/bdl/players) against any       *)
(*                sequence of upstream outcomes,                           *)
(*   SpecGamelogs the paginated gamelogs handler (api/nba.js),             *)
(*   SpecLast10   the cursor loop of the last10 handler (api/bdl/last10).  *)
(* Each specification leaves the variables of the others at rest.          *)
(***************************************************************************)
EXTENDS Integers, Sequences, FiniteSets, TLC

\* ----------------------------------------------------------------- state

VARIABLES
    series,         \* input.series, as passed
    line,           \* input.line (hundredths)
    direction,      \* input.direction
    simulations,    \* input.simulations
    clampMin,       \* input.clampMin (hundredths)
    pc,             \* "start", "loop", "done": the position in monteCarloProject
    clean,          \* the cleaned series
    n,              \* clean.length
    m,              \* mean(clean), <<sum, count>>
    sd,             \* stdev(clean), hundredths
    simSd,          \* the spread the sampling uses, hundredths
    i,              \* the loop counter
    samples,        \* the sample buffer (tenths)
    hits,           \* the hit counter
    result,         \* the returned ProjectionResult, once pc = "done"
    rngSeed,        \* input: Null (absent) or the seed
    prng,           \* the generator: Math.random, or the closure's state t
    runs,           \* two invocations in flight, each with its own locals
    gen,            \* the generator closures the two invocations created
    nums,           \* the array handed to the standard-deviation helpers
    sds,            \* what each helper returned for it (hundredths)
    logsRaw,        \* analyzeSlate: the game logs fetched for a prop
    statType,       \* analyzeSlate: the prop's stat type
    lastN,          \* analyzeSlate: the prop's lastN
    sortedLogs,     \* seriesFromLogs: `sorted`, the playable logs, newest first
    extracted,      \* seriesFromLogs: the returned {series, dates, minutes}
    slicedSeries,   \* analyzeSlate: series.slice(0, lastN)
    apc,            \* analyzeSlate: position in the prop's processing
    props,          \* analyzeSlate: the props of the call, with what upstream does
    propIndex,      \* analyzeSlate: the prop the for loop is at
    ranked,         \* analyzeSlate: the local array `ranked`
    outcome,        \* analyzeSlate: the returned promise
    engineCalls,    \* analyzeSlate: the series of each monteCarloProject call
    apiKey,         \* bdlFetch: getApiKey()
    tryIndex,       \* bdlFetch: the entry of `tries` the loop is at
    requests,       \* bdlFetch: the upstream requests made, by auth style
    lastErr,        \* bdlFetch: the local lastErr
    attemptErrors,  \* bdlFetch: the error object of every failed attempt
    fetchReturn,    \* bdlFetch: the returned {ok, status, json}
    lastNRaw,       \* gamelogs handler: req.query.last_n
    page,           \* gamelogs handler: the page the loop will request next
    collected,      \* gamelogs handler: the logs collected
    pagesRequested, \* gamelogs handler: the upstream page requests made
    reply,          \* gamelogs handler: the response sent
    loopI,          \* last10 handler: the loop counter i
    cursor,         \* last10 handler: the cursor of the next request
    rowsFetched,    \* last10 handler: the rows collected
    requestCount,   \* last10 handler: the upstream requests made
    answer          \* last10 handler: the response sent

engineVars == <<series, line, direction, simulations, clampMin, pc, clean, n,
                m, sd, simSd, i, samples, hits, result, rngSeed, prng>>
pairVars == <<runs, gen>>
helperVars == <<nums, sds>>
slateVars == <<logsRaw, statType, lastN, sortedLogs, extracted, slicedSeries, apc>>

analyzeVars == <<props, propIndex, ranked, outcome, engineCalls>>
fetchVars == <<apiKey, tryIndex, requests, lastErr, attemptErrors, fetchReturn>>
gamelogVars == <<lastNRaw, page, collected, pagesRequested, reply>>
last10Vars == <<loopI, cursor, rowsFetched, requestCount, answer>>
handlerVars == <<analyzeVars, fetchVars, gamelogVars, last10Vars>>

vars == <<engineVars, pairVars, helperVars, slateVars, handlerVars>>

\* ---------------------------------------------------------------- bounds

\* Largest simulation count a caller passes in the model.
MaxSims == 3

\* Largest |z| (in standard deviations) a draw of randn returns in the model.
ZMax == 2

\* ------------------------------------------------------ program constants

\* buildHistogram(samples, 12)
BinCount == 12

\* clamp(seriesLen / 20, 0, 1): the saturation point of sampleStrength
SaturationGames == 20

\* Math.max(0.75, m * 0.10): the floor of the substituted spread, in hundredths
MinSpread100 == 75

\* ---------------------------------------------------------------- inputs

Fin(v) == <<"fin", v>>
NaN == <<"nan", 0>>
PosInf == <<"inf", 0>>
NegInf == <<"-inf", 0>>

IsFinite(x) == x[1] = "fin"

Flat(len, v) == [k \in 1..len |-> Fin(v)]

\* The series a caller passes: empty, single-value, flat, low and high
\* volatility, one with cv exactly 0.5 and one with cv exactly 0.30 (mean 10,
\* sd 3), a 25-game flat series (sampleStrength saturated), and series
\* holding a negative value or every kind of non-finite value.
SeriesInputs ==
    { <<>>,
      <<Fin(10)>>,
      <<Fin(5)>>,
      <<Fin(5), Fin(5)>>,
      <<Fin(30), Fin(32), Fin(28)>>,
      <<Fin(5), Fin(20), Fin(2), Fin(18)>>,
      <<Fin(8), Fin(12), Fin(4)>>,
      <<Fin(7), Fin(10), Fin(13)>>,
      Flat(25, 10),
      <<Fin(-1)>>,
      <<NaN, Fin(10), PosInf, NegInf>> }

\* Lines, in hundredths: 10, 10.04 (not a multiple of 0.1), 9.5, 0.5, -1000.
Lines == {1000, 1004, 950, 50, -100000}

Directions == {"OVER", "UNDER"}

\* Simulation counts: negative, zero and small positive ones.
SimulationCounts == (-1)..MaxSims

\* clampMin, in hundredths: the default 0, 0.24 and 0.25 (not multiples of
\* 0.1) and 50 (above every draw, so that every sample is clamped).
ClampMins == {0, 24, 25, 5000}

\* The <<line, clampMin>> pairs a caller passes: every line with the default
\* clampMin, the line 0.22 just below the clampMin 0.24 and 0.25, and the line
\* 10 with the clampMin 50.
LineClampInputs ==
    (Lines \X {0}) \cup {<<22, 24>>, <<22, 25>>, <<1000, 5000>>}

ZValues == (-ZMax)..ZMax

\* ------------------------------------------------------------- arithmetic

Max(a, b) == IF a >= b THEN a ELSE b
Min(a, b) == IF a <= b THEN a ELSE b
Abs(a) == IF a < 0 THEN -a ELSE a

\* Math.round(num / den) for den > 0: floor(num/den + 1/2)
Round(num, den) == (2 * num + den) \div (2 * den)

RECURSIVE SqrtSearch(_, _, _)
SqrtSearch(x, lo, hi) ==
    IF lo >= hi THEN lo
    ELSE LET mid == (lo + hi + 1) \div 2
         IN  IF mid * mid <= x THEN SqrtSearch(x, mid, hi)
                               ELSE SqrtSearch(x, lo, mid - 1)

\* floor(sqrt(x)) for 0 <= x < 40000^2 (the search stays within TLC's integers)
ISqrt(x) == SqrtSearch(x, 0, Min(x, 40000))

RECURSIVE SumSeq(_)
SumSeq(s) == IF s = <<>> THEN 0 ELSE Head(s) + SumSeq(Tail(s))

RECURSIVE SumSquares(_)
SumSquares(s) == IF s = <<>> THEN 0 ELSE Head(s) * Head(s) + SumSquares(Tail(s))

\* clamp(n, min, max)
clamp(x, lo, hi) == Max(lo, Min(hi, x))

\* mean(arr) as <<numerator, denominator>>; 0 for the empty array
mean(arr) == IF Len(arr) = 0 THEN <<0, 1>> ELSE <<SumSeq(arr), Len(arr)>>

\* variance(arr) as <<numerator, denominator>>: 0 below two values, else the
\* sum of squared deviations over n - 1, which is
\* (n * sum(v^2) - sum(v)^2) / (n * (n - 1)).
variance(arr) ==
    IF Len(arr) < 2 THEN <<0, 1>>
    ELSE <<Len(arr) * SumSquares(arr) - SumSeq(arr) * SumSeq(arr),
           Len(arr) * (Len(arr) - 1)>>

\* stdev(arr) = Math.sqrt(variance(arr)), in hundredths (floored)
stdev(arr) == ISqrt((10000 * variance(arr)[1]) \div variance(arr)[2])

\* Mutant of Clean: a non-finite value is dropped instead of replaced by 0.
RECURSIVE CleanDropNonFinite(_)
CleanDropNonFinite(s) ==
    IF s = <<>> THEN <<>>
    ELSE IF IsFinite(Head(s)) /\ Head(s)[2] >= 0
         THEN <<Head(s)[2]>> \o CleanDropNonFinite(Tail(s))
         ELSE CleanDropNonFinite(Tail(s))

\* series.map(v => Number.isFinite(v) ? v : 0).filter(v => v >= 0)
RECURSIVE Clean(_)
Clean(s) ==
    IF s = <<>> THEN <<>>
    ELSE LET v == IF IsFinite(Head(s)) THEN Head(s)[2] ELSE 0
         IN  IF v >= 0 THEN <<v>> \o Clean(Tail(s)) ELSE Clean(Tail(s))

\* ---------------------------------------------------- the seeded generator

\* A 32-bit word is kept as <<high half, low half>>, each in 0..65535.
Half == 65536

\* Bitwise ^ and | on 16-bit halves.
RECURSIVE Xor16(_, _)
Xor16(x, y) ==
    IF x = 0 THEN y
    ELSE IF y = 0 THEN x
    ELSE ((x + y) % 2) + 2 * Xor16(x \div 2, y \div 2)

RECURSIVE Or16(_, _)
Or16(x, y) ==
    IF x = 0 THEN y
    ELSE IF y = 0 THEN x
    ELSE Max(x % 2, y % 2) + 2 * Or16(x \div 2, y \div 2)

\* a ^ b on words
XorU32(a, b) == <<Xor16(a[1], b[1]), Xor16(a[2], b[2])>>

\* c | a for a constant c below 65536 (1 | t, 61 | r)
OrLow(c, a) == <<a[1], Or16(c, a[2])>>

\* a + b, reduced to 32 bits when a bitwise operator next reads it
AddU32(a, b) ==
    <<(a[1] + b[1] + ((a[2] + b[2]) \div Half)) % Half, (a[2] + b[2]) % Half>>

\* a >>> k, for 0 < k < 16, with pow = 2^k
ShrU32(a, pow) ==
    <<a[1] \div pow, (a[2] \div pow) + (a[1] % pow) * (Half \div pow)>>

\* The 32-bit product of two halves, as a word (by bytes of y, so that no
\* intermediate value leaves 31 bits).
Mul16(x, y) ==
    LET upper == x * (y \div 256)
        lower == x * (y % 256)
        low == (upper % 256) * 256 + (lower % Half)
    IN  <<((upper \div 256) + (lower \div Half) + (low \div Half)) % Half,
          low % Half>>

\* Math.imul(a, b): the low 32 bits of the product
Imul(a, b) ==
    LET ll == Mul16(a[2], b[2])
    IN  <<(ll[1] + Mul16(a[1], b[2])[2] + Mul16(a[2], b[1])[2]) % Half, ll[2]>>

\* 0x6D2B79F5
Increment == <<27947, 31221>>

\* mulberry32(seed): the closure's state, t = seed >>> 0 (seeds are naturals
\* below 65536 in the model)
mulberry32(seed) == <<0, seed>>

\* t += 0x6D2B79F5
Advance(st) == AddU32(st, Increment)

\* The word one call of the closure returns (before the division by 2^32),
\* from the advanced state:
\*   r = Math.imul(t ^ (t >>> 15), 1 | t);
\*   r ^= r + Math.imul(r ^ (r >>> 7), 61 | r);
\*   (r ^ (r >>> 14)) >>> 0
Output(st) ==
    LET r1 == Imul(XorU32(st, ShrU32(st, 32768)), OrLow(1, st))
        r2 == XorU32(r1, AddU32(r1, Imul(XorU32(r1, ShrU32(r1, 128)),
                                         OrLow(61, r1))))
    IN  XorU32(r2, ShrU32(r2, 16384))

\* while (u === 0) u = prng(): the first non-zero word and the state after it
RECURSIVE NextNonZero(_)
NextNonZero(st) ==
    LET st2 == Advance(st)
    IN  IF Output(st2) = <<0, 0>> THEN NextNonZero(st2)
        ELSE <<Output(st2), st2>>

\* Math.sqrt(-2 ln u) floored to a whole number (4 at most), read from the
\* high half of the word u / 2^32: it is >= k iff u <= exp(-k^2 / 2).
Radius(u) ==
    IF u[1] < 22 THEN 4
    ELSE IF u[1] < 728 THEN 3
    ELSE IF u[1] < 8869 THEN 2
    ELSE IF u[1] < 39750 THEN 1
    ELSE 0

\* Math.cos(2 PI v) rounded to the nearest whole number: 1 up to a sixth of a
\* turn from 0, -1 up to a sixth of a turn from a half, else 0.
Cosine(v) ==
    IF v[1] <= 10922 \/ v[1] >= 54613 THEN 1
    ELSE IF v[1] >= 21845 /\ v[1] <= 43690 THEN -1
    ELSE 0

\* randn(prng) on a seeded generator: <<z, state after>>, z in whole standard
\* deviations and within the model's range of draws.
randn(st) ==
    LET u == NextNonZero(st)
        v == NextNonZero(u[2])
    IN  <<Max(-ZMax, Min(ZMax, Radius(u[1]) * Cosine(v[1]))), v[2]>>

\* rngSeed: absent, or a number
Null == <<"null", 0>>
Seed(k) == <<"seed", k>>

\* prng: not yet created (before line 160), Math.random, or the closure
\* mulberry32 returned, with its state t
NoPrng == <<"none", <<0, 0>>>>
MathRandom == <<"Math.random", <<0, 0>>>>
Seeded(st) == <<"mulberry32", st>>

\* The seeds a caller passes: 0 (which is != null) and 13; or none.
Seeds == {Seed(0), Seed(13)}
RngSeeds == {Null} \cup Seeds

\* prng = rngSeed != null ? mulberry32(rngSeed) : Math.random
MakePrng(seed) ==
    IF seed # Null THEN Seeded(mulberry32(seed[2])) ELSE MathRandom

\* Mutant of DrawOutcomes: Math.random is drawn from whatever the seed.
DrawOutcomesUnseeded(g) == {<<z, g>> : z \in ZValues}

\* The outcomes <<z, generator after>> of one randn(prng): any z of the range
\* with Math.random, the one z the state fixes with a seeded generator.
DrawOutcomes(g) ==
    IF g = MathRandom THEN {<<z, g>> : z \in ZValues}
    ELSE {<<randn(g[2])[1], Seeded(randn(g[2])[2])>>}

\* ------------------------------------------------------ engine functions

\* percentile(sorted, p), p in tenths (1, 5, 9); the result is in hundredths
\* (samples are in tenths and the interpolation weight w is a number of
\* tenths).  idx = (n - 1) * p, lo = floor(idx), hi = ceil(idx).
percentile(sorted, p) ==
    IF Len(sorted) = 0 THEN 0
    ELSE LET idx10 == (Len(sorted) - 1) * p
             lo == idx10 \div 10
             hi == (idx10 + 9) \div 10
             w10 == idx10 - 10 * lo
         IN  IF lo = hi THEN 10 * sorted[lo + 1]
             ELSE sorted[lo + 1] * (10 - w10) + sorted[hi + 1] * w10

SeqMin(s) == CHOOSE x \in {s[k] : k \in 1..Len(s)} :
                 \A y \in {s[k] : k \in 1..Len(s)} : x <= y
SeqMax(s) == CHOOSE x \in {s[k] : k \in 1..Len(s)} :
                 \A y \in {s[k] : k \in 1..Len(s)} : x >= y

\* Mutant of BinIndex: the index is not capped at binCount - 1, so the
\* maximum falls past the last bin.
BinIndexNoCap(s, lo, hi, binCount) ==
    Max(0, (binCount * (s - lo)) \div (hi - lo))

\* The bin a sample falls in (0-based):
\* Math.min(binCount - 1, Math.max(0, Math.floor((s - min) / width)))
\* with width = (max - min) / binCount.
BinIndex(s, lo, hi, binCount) ==
    Min(binCount - 1, Max(0, (binCount * (s - lo)) \div (hi - lo)))

\* Mutant of buildHistogram: no single-bin case; equal samples are spread
\* over binCount bins of zero width, all of them counted in the first.
buildHistogramAlwaysBins(xs, binCount) ==
    IF Len(xs) = 0 THEN <<>>
    ELSE LET lo == SeqMin(xs)
             hi == SeqMax(xs)
         IN  [b \in 1..binCount |->
                 [x0 |-> binCount * lo + (b - 1) * (hi - lo),
                  x1 |-> binCount * lo + b * (hi - lo),
                  count |-> Cardinality({k \in 1..Len(xs) :
                      IF lo = hi THEN b = 1
                      ELSE BinIndex(xs[k], lo, hi, binCount) = b - 1})]]

\* buildHistogram(samples, binCount).  Bin bounds x0, x1 are kept in
\* 1/binCount of a tenth: x0 = binCount * min + i * (max - min).
buildHistogram(xs, binCount) ==
    IF Len(xs) = 0 THEN <<>>
    ELSE LET lo == SeqMin(xs)
             hi == SeqMax(xs)
         IN  IF lo = hi
             THEN << [x0 |-> binCount * lo, x1 |-> binCount * hi,
                      count |-> Len(xs)] >>
             ELSE [b \in 1..binCount |->
                      [x0 |-> binCount * lo + (b - 1) * (hi - lo),
                       x1 |-> binCount * lo + b * (hi - lo),
                       count |-> Cardinality({k \in 1..Len(xs) :
                           BinIndex(xs[k], lo, hi, binCount) = b - 1})]]

\* Mutant of volatilityBucket: a zero sd is replaced by the substituted
\* simulation spread max(0.75, 0.10 * m) before cv is computed.
volatilityBucketOfSpread(var, mu) ==
    LET d == Max(mu[2], Abs(mu[1]))
        s == Max(MinSpread100 * mu[2], 10 * mu[1])
    IN  IF var[1] = 0
        THEN IF s < 30 * d THEN "LOW"
             ELSE IF s < 55 * d THEN "MODERATE" ELSE "HIGH"
        ELSE IF 100 * var[1] * mu[2] * mu[2] < 9 * d * d * var[2] THEN "LOW"
        ELSE IF 10000 * var[1] * mu[2] * mu[2] < 3025 * d * d * var[2] THEN "MODERATE"
        ELSE "HIGH"

\* volatilityBucket(seriesStdev, seriesMean), on the exact variance
\* var = <<vn, vd>> and mean m = <<mn, md>> (m >= 0 after cleaning):
\* cv = sd / max(1, |m|); cv < 0.30 iff 100 * var < 9 * denom^2 and
\* cv < 0.55 iff 10000 * var < 3025 * denom^2, with denom = max(md, |mn|) / md.
volatilityBucket(var, mu) ==
    LET d == Max(mu[2], Abs(mu[1]))
    IN  IF 100 * var[1] * mu[2] * mu[2] < 9 * d * d * var[2] THEN "LOW"
        ELSE IF 10000 * var[1] * mu[2] * mu[2] < 3025 * d * d * var[2] THEN "MODERATE"
        ELSE "HIGH"

\* volPenalty, in twentieths: 1, 0.75, 0.55
VolPenalty20(vol) == IF vol = "LOW" THEN 20 ELSE IF vol = "MODERATE" THEN 15 ELSE 11

\* Mutant of Prob: pushes are taken out of the denominator.
ProbExcludingPushes(h, sims) ==
    LET pushes == Cardinality({k \in 1..Len(samples) : 10 * samples[k] = line})
    IN  IF sims - pushes = 0 THEN NaN
        ELSE IF sims - pushes > 0 THEN <<"fin", <<h, sims - pushes>>>>
        ELSE <<"fin", <<-h, pushes - sims>>>>

\* prob = hits / simulations: <<"fin", <<num, den>>>> with den > 0, or NaN
\* for 0 / 0.  A negative count runs no iteration: 0 / simulations is -0.
Prob(h, sims) ==
    IF sims = 0 THEN NaN
    ELSE IF sims > 0 THEN <<"fin", <<h, sims>>>>
    ELSE <<"fin", <<-h, -sims>>>>

\* Mutant of confidenceScore: sampleStrength is not clamped to [0, 1].
confidenceScoreNoClamp(prob, seriesLen, vol) ==
    IF ~IsFinite(prob) THEN NaN
    ELSE LET pn == prob[2][1]
             pd == prob[2][2]
             scoreNum == 65 * Abs(2 * pn - pd) * SaturationGames + 35 * seriesLen * pd
         IN  Fin(Round(scoreNum * VolPenalty20(vol), SaturationGames * pd * 20))

\* Mutant of confidenceScore: probStrength keeps its sign (no Math.abs).
confidenceScoreNoAbs(prob, seriesLen, vol) ==
    IF ~IsFinite(prob) THEN NaN
    ELSE LET pn == prob[2][1]
             pd == prob[2][2]
             ss == clamp(seriesLen, 0, SaturationGames)
             scoreNum == 65 * (2 * pn - pd) * SaturationGames + 35 * ss * pd
         IN  Fin(Round(scoreNum * VolPenalty20(vol), SaturationGames * pd * 20))

\* confidenceScore(probability, seriesLen, vol):
\* probStrength = |p - 0.5| * 2 = |2 num - den| / den,
\* sampleStrength = clamp(seriesLen / 20, 0, 1),
\* score = 65 * probStrength + 35 * sampleStrength,
\* Math.round(score * volPenalty).  NaN in, NaN out.
confidenceScore(prob, seriesLen, vol) ==
    IF ~IsFinite(prob) THEN NaN
    ELSE LET pn == prob[2][1]
             pd == prob[2][2]
             ss == clamp(seriesLen, 0, SaturationGames)
             \* score = scoreNum / (SaturationGames * pd)
             scoreNum == 65 * Abs(2 * pn - pd) * SaturationGames + 35 * ss * pd
         IN  Fin(Round(scoreNum * VolPenalty20(vol), SaturationGames * pd * 20))

\* Mutant of SimSd: the substituted spread is m * 0.10 with no 0.75 floor.
SimSdProportional(sigma, mu) ==
    IF sigma = 0 THEN (10 * mu[1]) \div mu[2] ELSE sigma

\* const simSd = sd === 0 ? Math.max(0.75, m * 0.10) : sd   (hundredths)
SimSd(sigma, mu) ==
    IF sigma = 0 THEN Max(MinSpread100, (10 * mu[1]) \div mu[2]) ELSE sigma

\* Mutant of SampleValue: the draw is not clamped at clampMin.
SampleValueNoClamp(mu, spread, z, floor100) ==
    Round(100 * mu[1] + z * spread * mu[2], 10 * mu[2])

\* One sample: value = m + z * simSd; Math.max(clampMin, value);
\* Math.round(value * 10) / 10.  The result is in tenths.
SampleValue(mu, spread, z, floor100) ==
    LET raw == 100 * mu[1] + z * spread * mu[2]        \* hundredths * mu[2]
        clamped == Max(floor100 * mu[2], raw)
    IN  Round(clamped, 10 * mu[2])

\* Mutant of IsOver: a sample equal to the line counts as over.
IsOverInclusive(value, ln) == 10 * value >= ln

\* Mutant of IsUnder: a sample equal to the line counts as under.
IsUnderInclusive(value, ln) == 10 * value <= ln

\* value > line, value < line (value in tenths, line in hundredths)
IsOver(value, ln) == 10 * value > ln
IsUnder(value, ln) == 10 * value < ln

\* if (direction === "OVER" && over) hits += 1;
\* if (direction === "UNDER" && under) hits += 1;
IsHit(value, ln, dir) ==
    \/ dir = "OVER" /\ IsOver(value, ln)
    \/ dir = "UNDER" /\ IsUnder(value, ln)

\* Mutant of SortSamples: the buffer is left in draw order.
SortSamplesNone(s) == s

\* samples.sort((a, b) => a - b)
SortSamples(s) == SortSeq(s, LAMBDA a, b : a < b)

\* Math.round(x * 10) / 10 of a value num / den tenths (den > 0), in tenths
Round1(num, den) == Round(num, den)

\* Mutant of Edge: the edge is taken from the rounded projection field.
EdgeFromRounded(proj, ln, dir) ==
    LET diff == 10 * Round1(proj[1], proj[2]) - ln
    IN  Round1(IF dir = "OVER" THEN diff ELSE -diff, 10)

\* edge = direction === "OVER" ? proj - line : line - proj, rounded to one
\* decimal; proj = <<sum, count>> tenths, line in hundredths.
Edge(proj, ln, dir) ==
    LET diff == 10 * proj[1] - ln * proj[2]          \* hundredths * count
    IN  Round1(IF dir = "OVER" THEN diff ELSE -diff, 10 * proj[2])

\* Mutant of ProbabilityField: the reported probability is capped at 99.
ProbabilityFieldCapped99(prob) ==
    IF ~IsFinite(prob) THEN NaN
    ELSE Fin(Min(990, Round(1000 * prob[2][1], prob[2][2])))

\* probability: Math.round(prob * 1000) / 10, in tenths of a percent
ProbabilityField(prob) ==
    IF ~IsFinite(prob) THEN NaN
    ELSE Fin(Round(1000 * prob[2][1], prob[2][2]))

\* samples.slice(0, 50)
PreviewLen == 50

\* Lines 187-214: the result built from the sorted samples, the hit count
\* and the statistics of the cleaned series.
ProjectionResultOf(sorted, h, sims, cleaned, count, mu, sigma, ln, dir) ==
    LET p10 == percentile(sorted, 1)
        p50 == percentile(sorted, 5)
        p90 == percentile(sorted, 9)
        proj == mean(sorted)
        prob == Prob(h, sims)
        vol == volatilityBucket(variance(cleaned), mu)
    IN  [returned |-> TRUE,
         projection |-> Round1(proj[1], proj[2]),
         probability |-> ProbabilityField(prob),
         edge |-> Edge(proj, ln, dir),
         floor |-> Round1(p10, 10),
         median |-> Round1(p50, 10),
         ceiling |-> Round1(p90, 10),
         stdev |-> Round1(sigma, 10),
         volatility |-> vol,
         confidence |-> confidenceScore(prob, count, vol),
         samplesPreview |-> SubSeq(sorted, 1, Min(PreviewLen, Len(sorted))),
         histogram |-> buildHistogram(sorted, BinCount)]

\* ------------------------------------------------------------ the engine

NoResult == [returned |-> FALSE]

\* No pair of invocations, no helper call and no slate is being processed.
PairIdle == runs = <<>> /\ gen = <<>>
HelpersIdle == nums = <<>> /\ sds = <<>>
SlateIdle ==
    /\ logsRaw = <<>> /\ statType = "" /\ lastN = 0 /\ sortedLogs = <<>>
    /\ extracted = <<>> /\ slicedSeries = <<>> /\ apc = "idle"

\* No call of analyzeSlate, bdlFetch or a handler is in flight.
AnalyzeIdle ==
    /\ props = <<>> /\ propIndex = 0 /\ ranked = <<>>
    /\ outcome = <<"idle", <<>>>> /\ engineCalls = <<>>
FetchIdle ==
    /\ apiKey = "" /\ tryIndex = 0 /\ requests = <<>>
    /\ lastErr = [error |-> "", status |-> 0, detail |-> ""]
    /\ attemptErrors = <<>> /\ fetchReturn = [returned |-> FALSE]
GamelogsIdle ==
    /\ lastNRaw = <<"undefined", 0>> /\ page = 0 /\ collected = <<>>
    /\ pagesRequested = <<>> /\ reply = [sent |-> FALSE]
Last10Idle ==
    /\ loopI = 0 /\ cursor = <<"undefined", 0>> /\ rowsFetched = <<>>
    /\ requestCount = 0 /\ answer = [sent |-> FALSE]
HandlersIdle == AnalyzeIdle /\ FetchIdle /\ GamelogsIdle /\ Last10Idle

\* The call: the caller's input, nothing computed yet.
Init ==
    /\ series \in SeriesInputs
    /\ \E lc \in LineClampInputs : line = lc[1] /\ clampMin = lc[2]
    /\ clampMin \in ClampMins
    /\ direction \in Directions
    /\ simulations \in SimulationCounts
    /\ rngSeed \in RngSeeds
    /\ prng = NoPrng
    /\ PairIdle /\ HelpersIdle /\ SlateIdle /\ HandlersIdle
    /\ pc = "start"
    /\ clean = <<>>
    /\ n = 0
    /\ m = <<0, 1>>
    /\ sd = 0
    /\ simSd = 0
    /\ i = 0
    /\ samples = <<>>
    /\ hits = 0
    /\ result = NoResult

\* Lines 149-163: clean the series, estimate mean and spread, set up the loop.
Estimate ==
    /\ pc = "start"
    /\ clean' = Clean(series)
    /\ n' = Len(clean')
    /\ m' = mean(clean')
    /\ sd' = stdev(clean')
    /\ simSd' = SimSd(sd', m')
    /\ samples' = <<>>
    /\ hits' = 0
    /\ i' = 0
    /\ prng' = MakePrng(rngSeed)
    /\ pc' = "loop"
    /\ UNCHANGED <<series, line, direction, simulations, clampMin, result,
                   rngSeed, pairVars, helperVars, slateVars, handlerVars>>

\* Lines 165-183: one iteration of the sampling loop.
Draw ==
    /\ pc = "loop"
    /\ i < simulations
    /\ \E o \in DrawOutcomes(prng) :
         LET value == SampleValue(m, simSd, o[1], clampMin)
         IN  /\ samples' = Append(samples, value)
             /\ hits' = IF IsHit(value, line, direction) THEN hits + 1 ELSE hits
             /\ prng' = o[2]
    /\ i' = i + 1
    /\ UNCHANGED <<series, line, direction, simulations, clampMin, pc, clean, n,
                   m, sd, simSd, result, rngSeed, pairVars, helperVars,
                   slateVars, handlerVars>>

\* Lines 185-214: sort, aggregate and return.
Finish ==
    /\ pc = "loop"
    /\ ~(i < simulations)
    /\ samples' = SortSamples(samples)
    /\ result' = ProjectionResultOf(samples', hits, simulations, clean, n, m,
                                    sd, line, direction)
    /\ pc' = "done"
    /\ UNCHANGED <<series, line, direction, simulations, clampMin, clean, n, m,
                   sd, simSd, i, hits, rngSeed, prng, pairVars, helperVars,
                   slateVars, handlerVars>>

Next == Estimate \/ Draw \/ Finish

Spec == Init /\ [][Next]_vars

\* ------------------------------------------------- two invocations at once

\* Further seeded invocations: 16 draws (the least count for which
\* prob * 1000 can end in .5) and the counts 0 and -1 that draw nothing, with
\* the line 29 between two sample values and the line 30 on a sample value.
LongRunInputs ==
    [series : { <<Fin(30), Fin(32), Fin(28)>> },
     line : {2900, 3000},
     direction : Directions,
     simulations : {-1, 0, 16},
     clampMin : {0},
     rngSeed : {Seed(0)}]

\* The inputs of the two seeded invocations.
PairInputs ==
    [series : { <<Fin(5), Fin(20), Fin(2), Fin(18)>>,
                <<Fin(30), Fin(32), Fin(28)>> },
     line : {1000},
     direction : Directions,
     simulations : {2, MaxSims},
     clampMin : {0},
     rngSeed : Seeds]

\* The locals of an invocation at its call.
Called(inp) ==
    [series |-> inp.series, line |-> inp.line, direction |-> inp.direction,
     simulations |-> inp.simulations, clampMin |-> inp.clampMin,
     rngSeed |-> inp.rngSeed, pc |-> "start", clean |-> <<>>, n |-> 0,
     m |-> <<0, 1>>, sd |-> 0, simSd |-> 0, i |-> 0, samples |-> <<>>,
     hits |-> 0, result |-> NoResult]

\* The input an invocation was called with.
InputOf(r) ==
    [series |-> r.series, line |-> r.line, direction |-> r.direction,
     simulations |-> r.simulations, clampMin |-> r.clampMin,
     rngSeed |-> r.rngSeed]

\* Lines 149-163 on an invocation's locals.
EstimateRun(r) ==
    LET cleaned == Clean(r.series)
    IN  [r EXCEPT !.clean = cleaned, !.n = Len(cleaned), !.m = mean(cleaned),
                  !.sd = stdev(cleaned),
                  !.simSd = SimSd(stdev(cleaned), mean(cleaned)),
                  !.samples = <<>>, !.hits = 0, !.i = 0, !.pc = "loop"]

\* Lines 165-183 on an invocation's locals, for the z that randn returned.
DrawRun(r, z) ==
    LET value == SampleValue(r.m, r.simSd, z, r.clampMin)
    IN  [r EXCEPT !.samples = Append(@, value),
                  !.hits = IF IsHit(value, r.line, r.direction) THEN @ + 1 ELSE @,
                  !.i = @ + 1]

\* Lines 185-214 on an invocation's locals.
FinishRun(r) ==
    [r EXCEPT !.samples = SortSamples(@),
              !.result = ProjectionResultOf(SortSamples(r.samples), r.hits,
                             r.simulations, r.clean, r.n, r.m, r.sd, r.line,
                             r.direction),
              !.pc = "done"]

\* Mutant of GenCell: both invocations draw from one generator cell.
GenCellShared(k) == 1

\* The generator an invocation draws from: the closure it created itself.
GenCell(k) == k

\* The single invocation of the engine section is not running.
EngineIdle ==
    /\ series = <<>> /\ line = 0 /\ direction = "OVER" /\ simulations = 0
    /\ clampMin = 0 /\ pc = "idle" /\ clean = <<>> /\ n = 0 /\ m = <<0, 1>>
    /\ sd = 0 /\ simSd = 0 /\ i = 0 /\ samples = <<>> /\ hits = 0
    /\ result = NoResult /\ rngSeed = Null /\ prng = NoPrng

\* Two calls with seeds; neither has run a line yet.
PairInit ==
    /\ runs \in [1..2 -> {Called(inp) : inp \in PairInputs}]
    /\ gen = [k \in 1..2 |-> NoPrng]
    /\ EngineIdle /\ HelpersIdle /\ SlateIdle /\ HandlersIdle

PairUnchanged == UNCHANGED <<engineVars, helperVars, slateVars, handlerVars>>

PairEstimate(k) ==
    /\ runs[k].pc = "start"
    /\ runs' = [runs EXCEPT ![k] = EstimateRun(@)]
    /\ gen' = [gen EXCEPT ![GenCell(k)] = MakePrng(runs[k].rngSeed)]
    /\ PairUnchanged

PairDraw(k) ==
    /\ runs[k].pc = "loop"
    /\ runs[k].i < runs[k].simulations
    /\ \E o \in DrawOutcomes(gen[GenCell(k)]) :
          /\ runs' = [runs EXCEPT ![k] = DrawRun(@, o[1])]
          /\ gen' = [gen EXCEPT ![GenCell(k)] = o[2]]
    /\ PairUnchanged

PairFinish(k) ==
    /\ runs[k].pc = "loop"
    /\ ~(runs[k].i < runs[k].simulations)
    /\ runs' = [runs EXCEPT ![k] = FinishRun(@)]
    /\ UNCHANGED gen
    /\ PairUnchanged

\* The two invocations' steps, interleaved in any order.
PairNext == \E k \in 1..2 : PairEstimate(k) \/ PairDraw(k) \/ PairFinish(k)

SpecPair == PairInit /\ [][PairNext]_vars

\* One input run twice with seeds, once for OVER and once for UNDER.
OverUnderInit ==
    /\ \E inp \in PairInputs \cup LongRunInputs :
          runs = [k \in 1..2 |->
                    Called([inp EXCEPT !.direction =
                                IF k = 1 THEN "OVER" ELSE "UNDER"])]
    /\ gen = [k \in 1..2 |-> NoPrng]
    /\ EngineIdle /\ HelpersIdle /\ SlateIdle /\ HandlersIdle

SpecOverUnder == OverUnderInit /\ [][PairNext]_vars

\* An invocation run alone, with a generator of its own, from the locals r
\* and generator g up to its return, or up to the loop test after `stop`
\* draws.
RECURSIVE RunFrom(_, _, _)
RunFrom(r, g, stop) ==
    IF r.pc = "start" THEN RunFrom(EstimateRun(r), MakePrng(r.rngSeed), stop)
    ELSE IF r.pc = "loop" /\ r.i = stop THEN r
    ELSE IF r.pc = "loop" /\ r.i < r.simulations
         THEN LET o == CHOOSE o \in DrawOutcomes(g) : TRUE
              IN  RunFrom(DrawRun(r, o[1]), o[2], stop)
    ELSE IF r.pc = "loop" THEN FinishRun(r)
    ELSE r

\* The locals of the invocation of inp, alone, after `stop` draws
RunAloneUpTo(inp, stop) == RunFrom(Called(inp), NoPrng, stop)

\* The locals of the invocation of inp, alone, at its return
RunAlone(inp) == RunFrom(Called(inp), NoPrng, -1)

\* ------------------------------------------- standard-deviation helpers

\* Math.sqrt of the variance num / den, in hundredths (floored)
SqrtOfRatio(num, den) == ISqrt((10000 * num) \div den)

\* The population variance, mean(nums.map(x => (x - m) ** 2)), as
\* <<numerator, denominator>>: (n * sum(x^2) - sum(x)^2) / n^2; 0 for [].
PopulationVariance(arr) ==
    IF Len(arr) = 0 THEN <<0, 1>>
    ELSE <<Len(arr) * SumSquares(arr) - SumSeq(arr) * SumSeq(arr),
           Len(arr) * Len(arr)>>

\* src/api/bdl/last10.ts, stddev: 0 up to one value, else the sum of squared
\* deviations over n - 1
stddev(arr) ==
    IF Len(arr) <= 1 THEN 0
    ELSE SqrtOfRatio(Len(arr) * SumSquares(arr) - SumSeq(arr) * SumSeq(arr),
                     Len(arr) * (Len(arr) - 1))

\* src/api/bdl/last10.ts, stdev: 0 up to one value, else over n
stdevLast10(arr) ==
    IF Len(arr) <= 1 THEN 0
    ELSE SqrtOfRatio(PopulationVariance(arr)[1], PopulationVariance(arr)[2])

\* src/unnamed/part_007, stdev: 0 below two values, else over n
stdevPart007(arr) ==
    IF Len(arr) < 2 THEN 0
    ELSE SqrtOfRatio(PopulationVariance(arr)[1], PopulationVariance(arr)[2])

\* src/unnamed/part_001, stdev: 0 below two values, else over n
stdevPart001(arr) ==
    IF Len(arr) < 2 THEN 0
    ELSE SqrtOfRatio(PopulationVariance(arr)[1], PopulationVariance(arr)[2])

\* src/api/src/lib/projectionEngine.ts, standardDeviation: over n, no guard
standardDeviation(arr) ==
    SqrtOfRatio(PopulationVariance(arr)[1], PopulationVariance(arr)[2])

\* The helpers of the repository, by the file that defines them.
Helpers == {"projections.stdev", "last10.stddev", "last10.stdev",
            "part_007.stdev", "part_001.stdev",
            "projectionEngine.standardDeviation"}

HelperValue(h, arr) ==
    CASE h = "projections.stdev" -> stdev(arr)
      [] h = "last10.stddev" -> stddev(arr)
      [] h = "last10.stdev" -> stdevLast10(arr)
      [] h = "part_007.stdev" -> stdevPart007(arr)
      [] h = "part_001.stdev" -> stdevPart001(arr)
      [] h = "projectionEngine.standardDeviation" -> standardDeviation(arr)

\* The arrays the helpers are given: empty, one value, flat, and spread.
HelperInputs ==
    { <<>>, <<10>>, <<5, 5>>, <<8, 12, 4>>, <<7, 10, 13>>, <<30, 32, 28>>,
      <<5, 20, 2, 18>> }

\* A helper that has not been called yet.
NotCalled == -1

HelperInit ==
    /\ nums \in HelperInputs
    /\ sds = [h \in Helpers |-> NotCalled]
    /\ EngineIdle /\ PairIdle /\ SlateIdle /\ HandlersIdle

\* One helper is called on the array.
CallHelper(h) ==
    /\ sds[h] = NotCalled
    /\ sds' = [sds EXCEPT ![h] = HelperValue(h, nums)]
    /\ UNCHANGED <<nums, engineVars, pairVars, slateVars, handlerVars>>

HelperNext == \E h \in Helpers : CallHelper(h)

SpecHelpers == HelperInit /\ [][HelperNext]_vars

\* ------------------------------------------------ analyzeSlate: the series

\* The minutes field of a game log: a number, a string "MM:SS" (given by its
\* parts before and after the colon), or absent.
MinutesNumber(k) == <<"number", k, 0>>
MinutesString(mm, ss) == <<"string", mm, ss>>
MinutesAbsent == <<"undefined", 0, 0>>

\* A game log.  The date is a fixed-width date string, kept as the sequence of
\* its digits: <<1, 2>> is the twelfth day of the sample.
\* A stat field holds a number (Fin, NaN, PosInf, NegInf), a string (one that
\* reads as a number, or not), null, or is missing.
NumericText(k) == <<"numstring", k>>
Text == <<"string", 0>>
NullField == <<"null", 0>>
Missing == <<"undefined", 0>>

\* A game log with every field the series may read.
RawLog(date, minutes, pts, reb, ast, stl, blk, three_pm, fg3m, fg3a, turnover, tov) ==
    [date |-> date, minutes |-> minutes, pts |-> pts, reb |-> reb,
     ast |-> ast, stl |-> stl, blk |-> blk, three_pm |-> three_pm,
     fg3m |-> fg3m, fg3a |-> fg3a, turnover |-> turnover, tov |-> tov]

\* A game log with its three base stats and none of the optional fields.
GameLog(date, minutes, pts, reb, ast) ==
    RawLog(date, minutes, Fin(pts), Fin(reb), Fin(ast), Missing, Missing,
           Missing, Missing, Missing, Missing, Missing)

\* num(v): Number(v) when that is finite, else 0 (null reads as 0, a missing
\* field and a string that is no number as NaN)
Num(v) == IF v[1] \in {"fin", "numstring"} THEN v[2] ELSE 0

\* a ?? b
Coalesce(a, b) == IF a[1] \in {"null", "undefined"} THEN b ELSE a

\* What fetchPlayerGameLogs hands over: null, or an array of game logs.
NullLogs == <<"null", <<>>>>
LogArray(arr) == <<"array", arr>>

\* minutesToNum(v): the part before the colon of a string, the number itself,
\* 0 for what is not a finite number.
minutesToNum(v) ==
    IF v[1] = "string" THEN v[2]
    ELSE IF v[1] = "number" THEN v[2]
    ELSE 0

\* logs || []
OrEmpty(logs) == IF logs[1] = "array" THEN logs[2] ELSE <<>>

\* Mutant of IsPlayable: a game of 0 minutes is kept.
IsPlayableInclusive(g) == minutesToNum(g.minutes) >= 0

\* The filter of filterPlayableLogs: minutesToNum(g.minutes) > 0
IsPlayable(g) == minutesToNum(g.minutes) > 0

\* filterPlayableLogs(logs): the playable logs in input order, each given by
\* its place in the input array (the objects themselves are not copied).
filterPlayableLogs(logs) ==
    LET arr == OrEmpty(logs)
        Keep(k) == IsPlayable(arr[k])
    IN  SelectSeq([k \in 1..Len(arr) |-> k], Keep)

\* a.localeCompare(b) on two digit strings: -1, 0 or 1
RECURSIVE localeCompare(_, _)
localeCompare(a, b) ==
    IF a = <<>> /\ b = <<>> THEN 0
    ELSE IF a = <<>> THEN -1
    ELSE IF b = <<>> THEN 1
    ELSE IF Head(a) < Head(b) THEN -1
    ELSE IF Head(a) > Head(b) THEN 1
    ELSE localeCompare(Tail(a), Tail(b))

\* Mutant of CompareLogs: oldest first.
CompareLogsAscending(a, b) == localeCompare(a.date, b.date)

\* The comparator of the sort: String(b.date).localeCompare(String(a.date))
CompareLogs(a, b) == localeCompare(b.date, a.date)

\* Array.prototype.sort is stable: a log is placed behind every log already
\* placed that the comparator does not put after it.
RECURSIVE InsertStable(_, _, _)
InsertStable(placed, x, arr) ==
    IF placed = <<>> THEN <<x>>
    ELSE IF CompareLogs(arr[Head(placed)], arr[x]) > 0 THEN <<x>> \o placed
    ELSE <<Head(placed)>> \o InsertStable(Tail(placed), x, arr)

RECURSIVE SortStable(_, _, _)
SortStable(placed, rest, arr) ==
    IF rest = <<>> THEN placed
    ELSE SortStable(InsertStable(placed, Head(rest), arr), Tail(rest), arr)

\* getThreePM(g), getTurnovers(g)
getThreePM(g) == Num(Coalesce(g.three_pm, g.fg3m))
getTurnovers(g) == Num(Coalesce(g.turnover, g.tov))

\* Mutant of StatValue: a stat type the switch does not know reads as PTS.
StatValueDefaultPts(g, st) ==
    CASE st = "PTS" -> Num(g.pts)
      [] st = "REB" -> Num(g.reb)
      [] st = "AST" -> Num(g.ast)
      [] st = "STL" -> Num(g.stl)
      [] st = "BLK" -> Num(g.blk)
      [] st = "3PM" -> getThreePM(g)
      [] st = "3PA" -> Num(g.fg3a)
      [] st = "TO" -> getTurnovers(g)
      [] st = "PRA" -> Num(g.pts) + Num(g.reb) + Num(g.ast)
      [] st = "PR" -> Num(g.pts) + Num(g.reb)
      [] st = "PA" -> Num(g.pts) + Num(g.ast)
      [] st = "RA" -> Num(g.reb) + Num(g.ast)
      [] OTHER -> Num(g.pts)

\* The value of a log for a stat type (the switch of seriesFromLogs).
StatValue(g, st) ==
    CASE st = "PTS" -> Num(g.pts)
      [] st = "REB" -> Num(g.reb)
      [] st = "AST" -> Num(g.ast)
      [] st = "STL" -> Num(g.stl)
      [] st = "BLK" -> Num(g.blk)
      [] st = "3PM" -> getThreePM(g)
      [] st = "3PA" -> Num(g.fg3a)
      [] st = "TO" -> getTurnovers(g)
      [] st = "PRA" -> Num(g.pts) + Num(g.reb) + Num(g.ast)
      [] st = "PR" -> Num(g.pts) + Num(g.reb)
      [] st = "PA" -> Num(g.pts) + Num(g.ast)
      [] st = "RA" -> Num(g.reb) + Num(g.ast)
      [] OTHER -> 0

\* String(g.date || "").slice(0, 10)
DateField(g) == SubSeq(g.date, 1, Min(10, Len(g.date)))

\* seriesFromLogs(logsRaw, statType): `sorted` and the returned arrays
seriesFromLogs(logs, st) ==
    LET arr == OrEmpty(logs)
        refs == SortStable(<<>>, filterPlayableLogs(logs), arr)
    IN  [sorted |-> refs,
         series |-> [k \in 1..Len(refs) |-> StatValue(arr[refs[k]], st)],
         dates |-> [k \in 1..Len(refs) |-> DateField(arr[refs[k]])],
         minutes |-> [k \in 1..Len(refs) |-> minutesToNum(arr[refs[k]].minutes)]]

\* The game logs fetched for a prop: null, none, a mixed array (numeric and
\* "MM:SS" minutes, games of 0 minutes, "0:45", no minutes, two games on one
\* date, dates in no order), only games of 0 minutes, newest first, oldest
\* first with a negative minutes value, records with missing, null, text and
\* non-finite stat fields, and a record with negative stat fields.
LogInputs ==
    { NullLogs,
      LogArray(<<>>),
      LogArray(<< GameLog(<<0, 5>>, MinutesNumber(30), 10, 4, 2),
                  GameLog(<<1, 2>>, MinutesString(36, 12), 20, 5, 3),
                  GameLog(<<0, 9>>, MinutesNumber(0), 0, 0, 0),
                  GameLog(<<1, 2>>, MinutesNumber(28), 15, 6, 1),
                  GameLog(<<2, 0>>, MinutesString(0, 45), 2, 0, 0),
                  GameLog(<<0, 1>>, MinutesAbsent, 7, 7, 7),
                  GameLog(<<1, 9>>, MinutesNumber(33), 25, 3, 8) >>),
      LogArray(<< GameLog(<<0, 3>>, MinutesNumber(0), 0, 0, 0),
                  GameLog(<<0, 4>>, MinutesString(0, 0), 0, 0, 0) >>),
      LogArray(<< GameLog(<<2, 1>>, MinutesNumber(31), 18, 2, 4),
                  GameLog(<<1, 0>>, MinutesNumber(29), 11, 9, 0),
                  GameLog(<<0, 2>>, MinutesString(12, 30), 6, 1, 1) >>),
      LogArray(<< GameLog(<<0, 2>>, MinutesNumber(24), 9, 3, 3),
                  GameLog(<<0, 2>>, MinutesNumber(26), 12, 3, 5),
                  GameLog(<<0, 8>>, MinutesNumber(-1), 1, 1, 1),
                  GameLog(<<1, 1>>, MinutesString(40, 2), 30, 10, 10) >>),
      LogArray(<< RawLog(<<0, 6>>, MinutesNumber(20), Fin(12), Missing,
                         NullField, Fin(2), Fin(1), Fin(3), Fin(9), Fin(7),
                         NullField, Fin(4)),
                  RawLog(<<0, 7>>, MinutesNumber(22), Text, NumericText(6),
                         NaN, Text, Missing, Missing, Fin(2), PosInf,
                         Fin(5), Fin(8)) >>),
      LogArray(<< RawLog(<<0, 3>>, MinutesNumber(25), Fin(-3), Fin(4),
                         Fin(2), Fin(-1), Missing, Missing, Missing, Missing,
                         Missing, Missing),
                  GameLog(<<0, 4>>, MinutesNumber(27), 9, 1, 1) >>) }

\* The stat types of the model: those of SlateProp and one the switch does
\* not know.
StatTypes == {"PTS", "REB", "AST", "STL", "BLK", "3PM", "3PA", "TO",
              "PRA", "PR", "PA", "RA", "XYZ"}

\* p.lastN ?? 10
LastNs == {1, 2, 10}

\* A prop whose game logs have just been fetched.
SlateInit ==
    /\ logsRaw \in LogInputs
    /\ statType \in StatTypes
    /\ lastN \in LastNs
    /\ sortedLogs = <<>>
    /\ extracted = <<>>
    /\ slicedSeries = <<>>
    /\ apc = "fetched"
    /\ EngineIdle /\ PairIdle /\ HelpersIdle /\ HandlersIdle

\* const { series, dates, minutes } = seriesFromLogs(logsRaw, p.statType)
SeriesFromLogs ==
    /\ apc = "fetched"
    /\ LET r == seriesFromLogs(logsRaw, statType)
       IN  /\ sortedLogs' = r.sorted
           /\ extracted' = [series |-> r.series, dates |-> r.dates,
                            minutes |-> r.minutes]
    /\ apc' = "extracted"
    /\ UNCHANGED <<logsRaw, statType, lastN, slicedSeries, engineVars,
                   pairVars, helperVars, handlerVars>>

\* const slicedSeries = series.slice(0, lastN)
SliceSeries ==
    /\ apc = "extracted"
    /\ slicedSeries' = SubSeq(extracted.series, 1,
                              Min(lastN, Len(extracted.series)))
    /\ apc' = "sliced"
    /\ UNCHANGED <<logsRaw, statType, lastN, sortedLogs, extracted, engineVars,
                   pairVars, helperVars, handlerVars>>

SlateNext == SeriesFromLogs \/ SliceSeries

SpecSlate == SlateInit /\ [][SlateNext]_vars

\* -------------------------------------------- analyzeSlate, the whole call

\* The longest props array of the model.
MaxProps == 2

\* The logs upstream returns for a player with k playable games: the k games
\* oldest first, and one game the player sat out.
GamesPlayed(k) ==
    LogArray([j \in 1..(k + 1) |->
                 IF j = k + 1
                 THEN GameLog(<<0, 0>>, MinutesNumber(0), 0, 0, 0)
                 ELSE GameLog(<<0, j>>, MinutesNumber(30), 10 + j, 4, 2)])

\* A prop and what upstream does for it: playerId as the caller passed it (or
\* not), what the player search does, what the game-log fetch does and
\* returns.  lastN is a number or absent.
Prop(playerId, search, gamelogs, logs, lastNField) ==
    [id |-> 0, playerId |-> playerId, search |-> search,
     gamelogs |-> gamelogs, logs |-> logs, statType |-> "PTS",
     lastN |-> lastNField]

\* The props of the model: an id and six games (lastN absent); a name that
\* resolves (lastN 3); a name nobody matches; a search that fails; a game-log
\* fetch that fails, with and without a search before it; two games (lastN
\* absent, then lastN 2); exactly five games; lastN 0; lastN -1.
PropInputs ==
    { Prop("237", "found", "ok", GamesPlayed(6), Missing),
      Prop("", "found", "ok", GamesPlayed(6), Fin(3)),
      Prop("", "none", "ok", GamesPlayed(6), Missing),
      Prop("", "throws", "ok", GamesPlayed(6), Missing),
      Prop("237", "found", "throws", GamesPlayed(6), Missing),
      Prop("", "found", "throws", GamesPlayed(6), Fin(3)),
      Prop("237", "found", "ok", GamesPlayed(2), Missing),
      Prop("237", "found", "ok", GamesPlayed(2), Fin(2)),
      Prop("237", "found", "ok", GamesPlayed(5), Missing),
      Prop("237", "found", "ok", GamesPlayed(6), Fin(0)),
      Prop("237", "found", "ok", GamesPlayed(6), Fin(-1)) }

\* p.lastN ?? 10
LastNOf(p) == IF p.lastN = Missing THEN 10 ELSE p.lastN[2]

\* resolvePlayerId returns null when the search has no candidates.
Unresolved(p) == p.playerId = "" /\ p.search = "none"

\* Mutant of Throws: a failing upstream call is swallowed.
ThrowsNever(p) == FALSE

\* An await of the loop body throws for this prop: searchPlayersByName or
\* fetchPlayerGameLogs, each on a response that is not OK.
Throws(p) ==
    IF p.playerId = ""
    THEN p.search = "throws" \/ (p.search = "found" /\ p.gamelogs = "throws")
    ELSE p.gamelogs = "throws"

\* Array.prototype.slice(0, end): a negative end counts from the back.
Slice(s, end) ==
    SubSeq(s, 1, IF end < 0 THEN Max(Len(s) + end, 0) ELSE Min(end, Len(s)))

\* series.slice(0, lastN) of the prop's series
SlicedSeriesOf(p) ==
    Slice(seriesFromLogs(p.logs, p.statType).series, LastNOf(p))

\* slicedSeries.length < Math.min(5, lastN)
TooFew(p) == Len(SlicedSeriesOf(p)) < Min(5, LastNOf(p))

\* What monteCarloProject returns to analyzeSlate is not computed here: the
\* call passes no seed and draws 7000 samples.  Its confidence and edge are
\* any of these (edge in tenths).
EngineResults == [confidence : {40, 70}, edge : {-5, 0, 12}]

\* Mutant of CompareRanked: the edge does not break ties.
CompareRankedConfidenceOnly(a, b) == b.result.confidence - a.result.confidence

\* The comparator of ranked.sort
CompareRanked(a, b) ==
    IF b.result.confidence # a.result.confidence
    THEN b.result.confidence - a.result.confidence
    ELSE b.result.edge - a.result.edge

\* Array.prototype.sort with that comparator: a stable sort.
RECURSIVE InsertRanked(_, _)
InsertRanked(s, x) ==
    IF s = <<>> THEN <<x>>
    ELSE IF CompareRanked(Head(s), x) <= 0
    THEN <<Head(s)>> \o InsertRanked(Tail(s), x)
    ELSE <<x>> \o s

RECURSIVE SortRanked(_)
SortRanked(s) ==
    IF s = <<>> THEN <<>>
    ELSE InsertRanked(SortRanked(SubSeq(s, 1, Len(s) - 1)), s[Len(s)])

\* The call: an array of props with distinct ids, nothing processed.  The
\* promise is <<"pending", <<>>>>, then <<"fulfilled", list>> or
\* <<"rejected", <<>>>>.
AnalyzeInit ==
    /\ \E k \in 0..MaxProps : \E s \in [1..k -> PropInputs] :
         props = [j \in 1..k |-> [s[j] EXCEPT !.id = j]]
    /\ propIndex = 1
    /\ ranked = <<>>
    /\ outcome = <<"pending", <<>>>>
    /\ engineCalls = <<>>
    /\ EngineIdle /\ PairIdle /\ HelpersIdle /\ SlateIdle
    /\ FetchIdle /\ GamelogsIdle /\ Last10Idle

\* Lines 302-305: no playerId and no candidate: continue.
SkipUnresolved ==
    /\ outcome = <<"pending", <<>>>> /\ propIndex <= Len(props)
    /\ Unresolved(props[propIndex])
    /\ propIndex' = propIndex + 1
    /\ UNCHANGED <<props, ranked, outcome, engineCalls, engineVars, pairVars,
                   helperVars, slateVars, fetchVars, gamelogVars, last10Vars>>

\* Lines 303 and 308: an await throws; nothing catches it, the promise rejects.
Reject ==
    /\ outcome = <<"pending", <<>>>> /\ propIndex <= Len(props)
    /\ Throws(props[propIndex])
    /\ outcome' = <<"rejected", <<>>>>
    /\ UNCHANGED <<props, propIndex, ranked, engineCalls, engineVars, pairVars,
                   helperVars, slateVars, fetchVars, gamelogVars, last10Vars>>

\* Lines 308-316: the logs arrive, the sliced series is too short: continue.
SkipTooFew ==
    /\ outcome = <<"pending", <<>>>> /\ propIndex <= Len(props)
    /\ ~Unresolved(props[propIndex])
    /\ ~Throws(props[propIndex])
    /\ TooFew(props[propIndex])
    /\ propIndex' = propIndex + 1
    /\ UNCHANGED <<props, ranked, outcome, engineCalls, engineVars, pairVars,
                   helperVars, slateVars, fetchVars, gamelogVars, last10Vars>>

\* Lines 308-332: the logs arrive, the engine runs on the sliced series, the
\* entry is pushed.
RankProp ==
    /\ outcome = <<"pending", <<>>>> /\ propIndex <= Len(props)
    /\ ~Unresolved(props[propIndex])
    /\ ~Throws(props[propIndex])
    /\ ~TooFew(props[propIndex])
    /\ LET p == props[propIndex]
       IN  /\ engineCalls' = Append(engineCalls, SlicedSeriesOf(p))
           /\ \E r \in EngineResults :
                ranked' = Append(ranked,
                    [prop |-> [p EXCEPT !.playerId =
                                 IF p.playerId # "" THEN p.playerId ELSE "found"],
                     result |-> r,
                     series |-> SlicedSeriesOf(p)])
    /\ propIndex' = propIndex + 1
    /\ UNCHANGED <<props, outcome, engineVars, pairVars, helperVars, slateVars,
                   fetchVars, gamelogVars, last10Vars>>

\* Lines 335-341: after the loop, sort and return.
SortAndReturn ==
    /\ outcome = <<"pending", <<>>>>
    /\ propIndex > Len(props)
    /\ ranked' = SortRanked(ranked)
    /\ outcome' = <<"fulfilled", ranked'>>
    /\ UNCHANGED <<props, propIndex, engineCalls, engineVars, pairVars,
                   helperVars, slateVars, fetchVars, gamelogVars, last10Vars>>

AnalyzeNext ==
    SkipUnresolved \/ Reject \/ SkipTooFew \/ RankProp \/ SortAndReturn

SpecAnalyze == AnalyzeInit /\ [][AnalyzeNext]_vars

\* ----------------------------------------------- bdlFetch (api/bdl/players)

\* `tries`: the auth header styles, in the order the loop takes them.
Tries == <<"Authorization: key", "Authorization: Bearer key", "X-API-KEY: key">>

\* What one upstream fetch does: a response (status, body text) or a thrown
\* error (message).
UpstreamOutcomes ==
    [kind : {"response"}, status : {200}, text : {"body"}]
    \cup [kind : {"response"}, status : {401, 403, 404, 500},
          text : {"", "denied"}]
    \cup [kind : {"throw"}, status : {0}, text : {"timeout", "reset"}]

\* res.ok
IsOk(o) == o.kind = "response" /\ o.status >= 200 /\ o.status <= 299

\* Mutant of TriesNextStyle: any failure moves on to the next style.
TriesNextStyleOnAnyFailure(o) == ~IsOk(o)

\* The loop goes on to the next style: a thrown fetch, or a 401 / 403.
TriesNextStyle(o) ==
    o.kind = "throw" \/ (~IsOk(o) /\ (o.status = 401 \/ o.status = 403))

\* The error object the code builds for a failed attempt.
ErrorOf(o) ==
    IF o.kind = "throw"
    THEN [error |-> "Fetch failed", status |-> 500, detail |-> o.text]
    ELSE IF o.status = 401 \/ o.status = 403
    THEN [error |-> "Upstream auth error", status |-> o.status,
          detail |-> o.text]
    ELSE [error |-> "Upstream error", status |-> o.status, detail |-> o.text]

\* The call, with or without BALLDONTLIE_API_KEY in the environment.
\* lastErr = null is the error object with status 0.
FetchInit ==
    /\ apiKey \in {"", "key"}
    /\ tryIndex = 1
    /\ requests = <<>>
    /\ lastErr = [error |-> "", status |-> 0, detail |-> ""]
    /\ attemptErrors = <<>>
    /\ fetchReturn = [returned |-> FALSE]
    /\ EngineIdle /\ PairIdle /\ HelpersIdle /\ SlateIdle
    /\ AnalyzeIdle /\ GamelogsIdle /\ Last10Idle

\* Lines 204-207: no key, no request.
MissingKey ==
    /\ ~fetchReturn.returned
    /\ apiKey = ""
    /\ fetchReturn' = [returned |-> TRUE, ok |-> FALSE, status |-> 401,
                       json |-> [error |-> "Missing BALLDONTLIE_API_KEY",
                                 status |-> 401, detail |-> ""]]
    /\ UNCHANGED <<apiKey, tryIndex, requests, lastErr, attemptErrors,
                   engineVars, pairVars, helperVars, slateVars, analyzeVars,
                   gamelogVars, last10Vars>>

\* Lines 218-233: one iteration of the loop over `tries`: one upstream request.
Attempt ==
    /\ ~fetchReturn.returned
    /\ apiKey # ""
    /\ tryIndex <= Len(Tries)
    /\ \E o \in UpstreamOutcomes :
         /\ requests' = Append(requests,
                               [style |-> Tries[tryIndex], outcome |-> o])
         /\ attemptErrors' = IF IsOk(o) THEN attemptErrors
                             ELSE Append(attemptErrors, ErrorOf(o))
         /\ IF IsOk(o)
            THEN /\ fetchReturn' = [returned |-> TRUE, ok |-> TRUE,
                                    status |-> o.status,
                                    json |-> [data |-> o.text]]
                 /\ UNCHANGED <<tryIndex, lastErr>>
            ELSE IF TriesNextStyle(o)
            THEN /\ lastErr' = ErrorOf(o)
                 /\ tryIndex' = tryIndex + 1
                 /\ UNCHANGED fetchReturn
            ELSE /\ fetchReturn' = [returned |-> TRUE, ok |-> FALSE,
                                    status |-> o.status, json |-> ErrorOf(o)]
                 /\ UNCHANGED <<tryIndex, lastErr>>
    /\ UNCHANGED <<apiKey, engineVars, pairVars, helperVars, slateVars,
                   analyzeVars, gamelogVars, last10Vars>>

\* Line 235: every style failed.
Exhausted ==
    /\ ~fetchReturn.returned
    /\ apiKey # ""
    /\ tryIndex > Len(Tries)
    /\ fetchReturn' =
         [returned |-> TRUE, ok |-> FALSE,
          status |-> IF lastErr.status # 0 THEN lastErr.status ELSE 500,
          json |-> IF lastErr.status # 0 THEN lastErr
                   ELSE [error |-> "Fetch failed", status |-> 500,
                         detail |-> ""]]
    /\ UNCHANGED <<apiKey, tryIndex, requests, lastErr, attemptErrors,
                   engineVars, pairVars, helperVars, slateVars, analyzeVars,
                   gamelogVars, last10Vars>>

FetchNext == MissingKey \/ Attempt \/ Exhausted

SpecBdlFetch == FetchInit /\ [][FetchNext]_vars

\* ------------------------------------- the gamelogs handler (api/nba.js)

\* const maxPages = 10
MaxPages == 10

\* Math.min(Math.max(parseInt(last_n_raw, 10) || 10, 1), 50): an absent
\* parameter reads "10", parseInt of other text is NaN, and NaN and 0 are
\* falsy.
ClampedLastN(raw) ==
    LET parsed == IF raw[1] = "numstring" THEN raw[2] ELSE 0
    IN  Min(Max(IF raw = Missing \/ parsed = 0 THEN 10 ELSE parsed, 1), 50)

\* What upstream answers to one page request: not OK, or a page of stat
\* rows.  The pages: no rows; one playable final game, a final game not
\* played in and a game not final; three playable final games, dated in no
\* order.
PageReplies ==
    { [ok |-> FALSE, status |-> 429, rows |-> <<>>],
      [ok |-> TRUE, status |-> 200, rows |-> <<>>],
      [ok |-> TRUE, status |-> 200, rows |->
          << [date |-> <<0, 4>>, status |-> "Final", min |-> MinutesNumber(0)],
             [date |-> <<0, 6>>, status |-> "Scheduled",
              min |-> MinutesNumber(31)],
             [date |-> <<0, 5>>, status |-> "Final",
              min |-> MinutesString(30, 12)] >>],
      [ok |-> TRUE, status |-> 200, rows |->
          << [date |-> <<0, 2>>, status |-> "Final", min |-> MinutesNumber(12)],
             [date |-> <<0, 3>>, status |-> "Final", min |-> MinutesNumber(5)],
             [date |-> <<0, 1>>, status |-> "Final",
              min |-> MinutesString(7, 40)] >>] }

\* parseMinutes(minVal): 0 for null, else the part before the colon
parseMinutes(v) == IF v = MinutesAbsent THEN 0 ELSE v[2]

\* Mutant of IsCompletedGame: the game status is not looked at.
IsCompletedGameAnyStatus(s) == ~(parseMinutes(s.min) <= 0)

\* Lines 123-124: only completed games with played minutes
IsCompletedGame(s) == ~(s.status # "Final") /\ ~(parseMinutes(s.min) <= 0)

\* Lines 118-161: the for loop over the sorted rows of a page; it breaks once
\* lastN logs are collected.  A log keeps the status of its game.
RECURSIVE CollectRows(_, _, _)
CollectRows(acc, todo, lim) ==
    IF todo = <<>> THEN acc
    ELSE IF ~IsCompletedGame(Head(todo)) THEN CollectRows(acc, Tail(todo), lim)
    ELSE LET log == [date |-> Head(todo).date,
                     minutes |-> parseMinutes(Head(todo).min),
                     status |-> Head(todo).status]
         IN  IF Len(acc) + 1 >= lim THEN Append(acc, log)
             ELSE CollectRows(Append(acc, log), Tail(todo), lim)

\* A gamelogs request with a player id; req.query.last_n is absent, the
\* string of a number, or other text.
GamelogsInit ==
    /\ lastNRaw \in {Missing, Text, NumericText(-5), NumericText(0),
                     NumericText(2), NumericText(60)}
    /\ page = 1
    /\ collected = <<>>
    /\ pagesRequested = <<>>
    /\ reply = [sent |-> FALSE]
    /\ EngineIdle /\ PairIdle /\ HelpersIdle /\ SlateIdle
    /\ AnalyzeIdle /\ FetchIdle /\ Last10Idle

\* Lines 100-164: one iteration of the while loop: the page is requested;
\* a response that is not OK is passed on, an empty page ends the loop and
\* the collected logs are sent, other rows are sorted newest first and
\* collected.
RequestPage ==
    /\ ~reply.sent
    /\ page <= MaxPages /\ Len(collected) < ClampedLastN(lastNRaw)
    /\ \E r \in PageReplies :
         /\ pagesRequested' = Append(pagesRequested,
                                     [page |-> page, response |-> r])
         /\ IF ~r.ok
            THEN /\ reply' = [sent |-> TRUE, status |-> r.status, data |-> <<>>]
                 /\ UNCHANGED <<page, collected>>
            ELSE IF Len(r.rows) = 0
            THEN /\ reply' = [sent |-> TRUE, status |-> 200,
                              data |-> Slice(collected, ClampedLastN(lastNRaw))]
                 /\ UNCHANGED <<page, collected>>
            ELSE LET refs == SortStable(<<>>, [k \in 1..Len(r.rows) |-> k],
                                        r.rows)
                     sortedRows == [k \in 1..Len(refs) |-> r.rows[refs[k]]]
                 IN  /\ collected' = CollectRows(collected, sortedRows,
                                                 ClampedLastN(lastNRaw))
                     /\ page' = page + 1
                     /\ UNCHANGED reply
    /\ UNCHANGED <<lastNRaw, engineVars, pairVars, helperVars, slateVars,
                   analyzeVars, fetchVars, last10Vars>>

\* Lines 166-174: the loop condition fails and the collected logs are sent.
SendLogs ==
    /\ ~reply.sent
    /\ ~(page <= MaxPages /\ Len(collected) < ClampedLastN(lastNRaw))
    /\ reply' = [sent |-> TRUE, status |-> 200,
                 data |-> Slice(collected, ClampedLastN(lastNRaw))]
    /\ UNCHANGED <<lastNRaw, page, collected, pagesRequested, engineVars,
                   pairVars, helperVars, slateVars, analyzeVars, fetchVars,
                   last10Vars>>

GamelogsNext == RequestPage \/ SendLogs

SpecGamelogs == GamelogsInit /\ [][GamelogsNext]_vars

\* -------------------------------------- the last10 handler (api/bdl/last10)

\* for (let i = 0; i < 6; i++), collected.length >= 250, .slice(0, 10)
MaxRequests == 6
EnoughRowCount == 250
GamesReported == 10

\* What upstream answers to one stats request: a response that is not OK
\* (bdlFetch throws), or a body.  Of a body the model keeps the number of
\* rows, the number of those rows that carry a date and numeric pts, reb and
\* ast, and meta.next_cursor: absent, or a number (0 included).
StatsReplies ==
    { [ok |-> FALSE, rows |-> 0, usable |-> 0, next |-> Missing],
      [ok |-> TRUE, rows |-> 0, usable |-> 0, next |-> Missing],
      [ok |-> TRUE, rows |-> 0, usable |-> 0, next |-> Fin(7)],
      [ok |-> TRUE, rows |-> 100, usable |-> 4, next |-> Fin(7)],
      [ok |-> TRUE, rows |-> 100, usable |-> 100, next |-> Missing],
      [ok |-> TRUE, rows |-> 40, usable |-> 3, next |-> Fin(0)] }

\* collected.length
RowCount(got) == SumSeq([k \in 1..Len(got) |-> got[k].rows])

\* Mutant of EnoughRows: the loop never has plenty.
EnoughRowsNever(got) == FALSE

\* if (collected.length >= 250) break
EnoughRows(got) == RowCount(got) >= EnoughRowCount

\* Lines 147-158 and 164-189: the response: the games are the first 10 usable
\* rows.
Last10Response(got) ==
    [sent |-> TRUE, status |-> 200,
     games |-> Min(SumSeq([k \in 1..Len(got) |-> got[k].usable]),
                   GamesReported),
     totalRowsFetched |-> RowCount(got)]

\* A request with a playerId; BDL_API_KEY is set.
Last10Init ==
    /\ loopI = 0
    /\ cursor = Missing
    /\ rowsFetched = <<>>
    /\ requestCount = 0
    /\ answer = [sent |-> FALSE]
    /\ EngineIdle /\ PairIdle /\ HelpersIdle /\ SlateIdle
    /\ AnalyzeIdle /\ FetchIdle /\ GamelogsIdle

\* Lines 122-145: one iteration of the loop: one request.  A thrown bdlFetch
\* is answered by the catch; a break leads to the response at once.
RequestStats ==
    /\ ~answer.sent
    /\ loopI < MaxRequests
    /\ requestCount' = requestCount + 1
    /\ \E r \in StatsReplies :
         IF ~r.ok
         THEN /\ answer' = [sent |-> TRUE, status |-> 500, games |-> 0,
                            totalRowsFetched |-> 0]
              /\ UNCHANGED <<loopI, cursor, rowsFetched>>
         ELSE /\ rowsFetched' = Append(rowsFetched, r)
              /\ IF r.next = Missing \/ r.next = Fin(0)
                 THEN /\ answer' = Last10Response(rowsFetched')
                      /\ UNCHANGED <<loopI, cursor>>
                 ELSE /\ cursor' = r.next
                      /\ IF EnoughRows(rowsFetched')
                         THEN /\ answer' = Last10Response(rowsFetched')
                              /\ UNCHANGED loopI
                         ELSE /\ loopI' = loopI + 1
                              /\ UNCHANGED answer
    /\ UNCHANGED <<engineVars, pairVars, helperVars, slateVars, analyzeVars,
                   fetchVars, gamelogVars>>

\* Lines 122 and 147-189: the loop counter reached its bound.
SendLast10 ==
    /\ ~answer.sent
    /\ ~(loopI < MaxRequests)
    /\ answer' = Last10Response(rowsFetched)
    /\ UNCHANGED <<loopI, cursor, rowsFetched, requestCount, engineVars,
                   pairVars, helperVars, slateVars, analyzeVars, fetchVars,
                   gamelogVars>>

Last10Next == RequestStats \/ SendLast10

\* Every await of the handler settles: a step that can be taken is taken.
SpecLast10 == Last10Init /\ [][Last10Next]_vars /\ WF_vars(Last10Next)

\* ---------------------------------------------------------------- claims

Done == pc = "done"

\* The samples on each side of the line, counted from the buffer itself.
OverCount == Cardinality({k \in 1..Len(samples) : 10 * samples[k] > line})
UnderCount == Cardinality({k \in 1..Len(samples) : 10 * samples[k] < line})
PushCount == Cardinality({k \in 1..Len(samples) : 10 * samples[k] = line})
SideCount == IF direction = "OVER" THEN OverCount ELSE UnderCount

\* p is x rounded half up to an integer, for x = num / den, den > 0
IsRounded(p, num, den) == 2 * num - den < 2 * den * p /\ 2 * den * p <= 2 * num + den

\* A non-empty series of finite, non-negative values: a valid StatSeries.
ValidSeries ==
    /\ series # <<>>
    /\ \A k \in 1..Len(series) : IsFinite(series[k]) /\ series[k][2] >= 0

\* C1 (as stated), on valid input: for a non-empty series of finite
\* non-negative values and a simulation count >= 1, confidence is an integer
\* in 1..99.
C1_ConfidenceWithin1To99 ==
    (Done /\ ValidSeries /\ simulations >= 1) =>
        (IsFinite(result.confidence) /\ result.confidence[2] \in 1..99)

\* C1 (amended): for a series that keeps at least one value after cleaning
\* and a non-zero simulation count, confidence is an integer in 1..100 (the
\* score is not clamped to [1, 99]); with simulation count 0 it is NaN.
C1_ConfidenceWithin1To100 ==
    Done =>
        /\ (simulations = 0) => ~IsFinite(result.confidence)
        /\ (simulations # 0 /\ n >= 1) =>
               (IsFinite(result.confidence) /\ result.confidence[2] \in 1..100)

\* C1 witness: a returned confidence of 100 (25 games, LOW volatility, every
\* sample a hit).
C1_Witness ==
    /\ Done /\ ValidSeries /\ simulations >= 1
    /\ IsFinite(result.confidence) /\ result.confidence[2] = 100

C4_ProbabilityWithin0To100 ==
    (Done /\ ValidSeries) =>
        (IsFinite(result.probability) /\ result.probability[2] \in 0..1000)

\* C5: in every result floor <= median <= ceiling (the one-decimal 10th, 50th
\* and 90th percentiles of the sorted samples).
C5_PercentilesOrdered ==
    Done => (result.floor <= result.median /\ result.median <= result.ceiling)

\* C5 witness: a result whose three percentiles differ.
C5_Witness ==
    Done /\ Len(samples) >= 3 /\ result.floor < result.median
         /\ result.median < result.ceiling

RECURSIVE SumCounts(_)
SumCounts(h) == IF h = <<>> THEN 0 ELSE Head(h).count + SumCounts(Tail(h))

\* C6: the histogram's bin counts sum exactly to the requested simulation
\* count (a count >= 0; a negative count draws no sample and the histogram is
\* empty): every sample lies in exactly one bin, and the histogram has
\* BinCount bins, or one bin when min = max, or none when nothing was drawn.
C6_HistogramCountsSum ==
    (Done /\ simulations >= 0) =>
        /\ SumCounts(result.histogram) = simulations
        /\ Len(result.histogram) =
               IF simulations = 0 THEN 0
               ELSE IF samples[1] = samples[Len(samples)] THEN 1 ELSE BinCount

\* C6 witness: a 12-bin histogram of at least three samples, with samples in
\* the first and in the last bin.
C6_Witness ==
    /\ Done /\ simulations >= 3 /\ Len(result.histogram) = BinCount
    /\ result.histogram[1].count >= 1 /\ result.histogram[BinCount].count >= 1

\* The signed distance of the unrounded projection (the mean of the samples)
\* from the line on the requested side, as numerator and denominator of a
\* number of tenths.
SignedDistanceNum ==
    LET proj == mean(samples)
        diff == 10 * proj[1] - line * proj[2]
    IN  IF direction = "OVER" THEN diff ELSE -diff
SignedDistanceDen == 10 * mean(samples)[2]

\* C7 (as stated): edge equals the projection field minus line (OVER) or
\* line minus the projection field (UNDER), and edge > 0 exactly when the
\* reported projection lies on the requested side of the line.
C7_EdgeFromProjectionField ==
    (Done /\ simulations >= 1) =>
        LET d == IF direction = "OVER" THEN 10 * result.projection - line
                                       ELSE line - 10 * result.projection
        IN  /\ 10 * result.edge = d
            /\ (result.edge > 0) <=> (d > 0)

\* C7 (amended): edge is the one-decimal rounding (half up) of the unrounded
\* mean of the samples minus line (OVER), or line minus that mean (UNDER); so
\* edge > 0 exactly when the unrounded mean lies at least 0.05 beyond the line
\* on the requested side.
C7_EdgeFromUnroundedMean ==
    Done =>
        /\ IsRounded(result.edge, SignedDistanceNum, SignedDistanceDen)
        /\ (result.edge > 0) <=> (2 * SignedDistanceNum >= SignedDistanceDen)

\* C7 witness: direction UNDER, the reported projection is below a line that
\* is not a multiple of 0.1, and the edge is not positive.
C7_Witness ==
    /\ Done /\ Len(samples) >= 1 /\ direction = "UNDER" /\ line % 10 # 0
    /\ 10 * result.projection < line /\ result.edge <= 0

\* C8 (as stated), for a non-empty series with a positive mean and a
\* simulation count >= 1: when sd is 0
\* the substituted spread scales with the mean for every value of the mean
\* (simSd = 0.10 * m), never a fixed constant.
C8_SpreadProportionalToMean ==
    (pc # "start" /\ sd = 0 /\ ValidSeries /\ m[1] > 0 /\ simulations >= 1) =>
        simSd * m[2] = 10 * m[1]

\* C8 (amended): when sd is 0 the substituted spread is max(0.75, 0.10 * m):
\* 0.10 * m when the mean is above 7.5, the fixed constant 0.75 when the mean
\* is 7.5 or less (the empty series included); otherwise the spread is sd.
C8_SpreadIsFlooredTenthOfMean ==
    (pc # "start") =>
        /\ (sd = 0 /\ 10 * m[1] > MinSpread100 * m[2]) => simSd * m[2] = 10 * m[1]
        /\ (sd = 0 /\ 10 * m[1] <= MinSpread100 * m[2]) => simSd = MinSpread100
        /\ (sd # 0) => simSd = sd

\* C8 witness: a non-empty flat series with a positive mean below 7.5, whose
\* spread is the constant 0.75.
C8_Witness ==
    pc # "start" /\ ValidSeries /\ sd = 0 /\ m[1] > 0 /\ simSd = MinSpread100

\* The case of C9: the empty series, line 10, direction OVER.
ScenarioC == series = <<>> /\ line = 1000 /\ direction = "OVER"

\* C9 (as stated): for the empty series, line 10, OVER, the result is
\* well-formed and its confidence is at the floor (1) or within a few points
\* of it.
C9_EmptySeriesConfidenceNearFloor ==
    (Done /\ ScenarioC /\ simulations >= 1) =>
        /\ result.returned
        /\ IsFinite(result.confidence) /\ result.confidence[2] <= 10

\* C9 (amended): for the empty series, line 10, OVER, the default clampMin
\* and a non-zero simulation count, the result is well-formed (probability 0,
\* volatility LOW, stdev 0) and its confidence is 65: no sample exceeds the
\* line, so probStrength is 1.
C9_EmptySeriesConfidence65 ==
    (Done /\ ScenarioC /\ clampMin = 0 /\ simulations # 0) =>
        /\ result.returned
        /\ IsFinite(result.probability) /\ result.probability[2] = 0
        /\ result.volatility = "LOW" /\ result.stdev = 0
        /\ IsFinite(result.confidence) /\ result.confidence[2] = 65

\* C9 witness: the scenario has returned after drawing samples.
C9_Witness ==
    /\ Done /\ ScenarioC /\ simulations >= 2 /\ Len(samples) = simulations
    /\ result.returned

\* C10: the number of samples drawn lies in the clamped range [1000, 20000]
\* whatever simulation count the caller supplies (here with a valid series).
C10_SampleCountClamped ==
    (Done /\ ValidSeries) => (Len(samples) >= 1000 /\ Len(samples) <= 20000)

\* C11 (as stated), on valid input: every simulated sample kept is greater
\* than or equal to clampMin, for every clampMin the caller supplies.
C11_SamplesAtLeastClampMin ==
    (pc \in {"loop", "done"} /\ ValidSeries /\ simulations >= 1) =>
        \A k \in 1..Len(samples) : 10 * samples[k] >= clampMin

\* C11 (amended): every sample kept is a multiple of 0.1 (a whole number of
\* tenths) and at least clampMin rounded half up to one decimal, because the
\* clamp comes before the rounding: it is less than 0.05 below clampMin at
\* worst, and at least clampMin when clampMin is a multiple of 0.1.
C11_SamplesAtLeastRoundedClampMin ==
    (pc \in {"loop", "done"}) =>
        \A k \in 1..Len(samples) :
            /\ samples[k] \in Int
            /\ IsRounded(Round(clampMin, 10), clampMin, 10)
            /\ samples[k] >= Round(clampMin, 10)
            /\ 10 * samples[k] > clampMin - 5
            /\ (clampMin % 10 = 0) => 10 * samples[k] >= clampMin

\* C11 witness: a clampMin that is not a multiple of 0.1 and a sample clamped
\* to it that the rounding has taken below clampMin.
C11_Witness ==
    /\ Done /\ ValidSeries /\ clampMin % 10 # 0
    /\ \E k \in 1..Len(samples) :
           samples[k] = Round(clampMin, 10) /\ 10 * samples[k] < clampMin

\* Sum over the cleaned series of (n * v - sum)^2, which is n^2 times the sum
\* of squared deviations from the mean.
RECURSIVE ScaledSquaredDeviations(_, _, _)
ScaledSquaredDeviations(arr, len, total) ==
    IF arr = <<>> THEN 0
    ELSE (len * Head(arr) - total) * (len * Head(arr) - total)
         + ScaledSquaredDeviations(Tail(arr), len, total)

\* cv = sd / max(1, |mean|) of the cleaned series is below pct / 100, with sd
\* the sample standard deviation (0 below two values):
\* cv < pct/100  iff  10000 * dev2 < pct^2 * max(n, |sum|)^2 * (n - 1).
CvBelow(pct) ==
    LET len == Len(clean)
        total == SumSeq(clean)
    IN  IF len < 2 THEN TRUE
        ELSE 10000 * ScaledSquaredDeviations(clean, len, total)
                 < pct * pct * Max(len, Abs(total)) * Max(len, Abs(total)) * (len - 1)

\* The cleaned series is flat (all values equal) or empty.
FlatOrEmpty == \A j, k \in 1..Len(clean) : clean[j] = clean[k]

\* C14: volatility is LOW when cv < 0.30, MODERATE when 0.30 <= cv < 0.55 and
\* HIGH when cv >= 0.55, with cv = sd / max(1, |m|) of the cleaned series and
\* sd its true standard deviation (never the substituted spread), so a flat
\* or empty series is LOW.
C14_VolatilityFromCv ==
    Done =>
        /\ result.volatility =
               IF CvBelow(30) THEN "LOW"
               ELSE IF CvBelow(55) THEN "MODERATE" ELSE "HIGH"
        /\ FlatOrEmpty => (result.volatility = "LOW" /\ simSd > 0)

\* C14 witness: a series with cv exactly 0.30, on the LOW / MODERATE boundary,
\* is reported MODERATE.
C14_Witness ==
    /\ Done /\ ValidSeries /\ simulations >= 1
    /\ ~CvBelow(30) /\ CvBelow(31)
    /\ sd = 300 /\ m = <<30, 3>>
    /\ result.volatility = "MODERATE"

\* The series holds a NaN, an Infinity or a -Infinity.
HasNonFinite == \E k \in 1..Len(series) : ~IsFinite(series[k])

\* The series with 0 in the place of every non-finite value.
ZeroNonFinite == [k \in 1..Len(series) |->
                     IF IsFinite(series[k]) THEN series[k][2] ELSE 0]

IsNonNegative(v) == v >= 0

\* C16: the non-finite values of the series are replaced by 0 before any
\* statistic is computed (count, mean and deviation are those of the series
\* with the zeros in), and no numeric field of the result is NaN or infinite;
\* the only NaN a result can hold is the 0 / 0 of a simulation count of 0,
\* which arises for every series alike.
C16_NonFiniteValuesBecomeZero ==
    (pc # "start" /\ HasNonFinite) =>
        /\ clean = SelectSeq(ZeroNonFinite, IsNonNegative)
        /\ n = Len(clean)
        /\ m = <<SumSeq(clean), n>>
        /\ sd = stdev(clean)
        /\ (Done /\ simulations # 0) =>
               /\ IsFinite(result.probability)
               /\ IsFinite(result.confidence)
               /\ result.probability[2] \in Int
               /\ result.confidence[2] \in Int
               /\ \A f \in {"projection", "edge", "floor", "median",
                            "ceiling", "stdev"} : result[f] \in Int
               /\ \A k \in 1..Len(result.samplesPreview) :
                      result.samplesPreview[k] \in Int
               /\ \A b \in 1..Len(result.histogram) :
                      /\ result.histogram[b].x0 \in Int
                      /\ result.histogram[b].x1 \in Int
                      /\ result.histogram[b].count \in Int

\* C16 witness: a series holding NaN, Infinity and -Infinity is cleaned to
\* [0, 10, 0, 0] and its result, after at least one draw, is returned.
C16_Witness ==
    /\ Done /\ simulations >= 1
    /\ \A x \in {NaN, PosInf, NegInf} : \E k \in 1..Len(series) : series[k] = x
    /\ clean = <<0, 10, 0, 0>>
    /\ IsFinite(result.probability)

\* At least one sample was drawn and all samples are the same value.
AllSamplesIdentical ==
    /\ Len(samples) >= 1
    /\ \A k \in 1..Len(samples) : samples[k] = samples[1]

\* C17: when all simulated samples are identical, the histogram is exactly
\* one bin whose two bounds are that value and whose count is the number of
\* samples, and floor, median and ceiling all equal that value.
C17_IdenticalSamplesOneBin ==
    (Done /\ AllSamplesIdentical) =>
        /\ Len(result.histogram) = 1
        /\ result.histogram[1].x0 = BinCount * samples[1]
        /\ result.histogram[1].x1 = BinCount * samples[1]
        /\ result.histogram[1].count = Len(samples)
        /\ result.histogram[1].count = simulations
        /\ result.floor = samples[1]
        /\ result.median = samples[1]
        /\ result.ceiling = samples[1]

\* C17 witness: several draws, all clamped to the same value (clampMin 50).
C17_Witness ==
    /\ Done /\ AllSamplesIdentical /\ ValidSeries
    /\ Len(samples) = MaxSims
    /\ 10 * samples[1] = clampMin
    /\ Len(result.histogram) = 1

\* C18 (as stated), on valid input: with direction OVER and any line below
\* clampMin, the reported probability is above 99.
C18_LineBelowClampMinAlwaysHit ==
    (Done /\ ValidSeries /\ simulations >= 1
          /\ direction = "OVER" /\ line < clampMin) =>
        /\ IsFinite(result.probability)
        /\ result.probability[2] > 990

\* C18 (amended): with direction OVER and a line below clampMin rounded half
\* up to one decimal (the least value a sample can take), every sample is a
\* hit and the reported probability is exactly 100 for every simulation
\* count >= 1, whatever the series; it is NaN for a count of 0 and 0 for a
\* negative count, where nothing is drawn.
C18_LineBelowRoundedClampMinAlwaysHit ==
    (Done /\ direction = "OVER" /\ line < 10 * Round(clampMin, 10)) =>
        /\ hits = Len(samples)
        /\ \A k \in 1..Len(samples) : 10 * samples[k] > line
        /\ (simulations >= 1) => result.probability = Fin(1000)
        /\ (simulations = 0) => ~IsFinite(result.probability)
        /\ (simulations < 0) => result.probability = Fin(0)

\* C18 witness: line 0.22 below clampMin 0.25, a draw clamped and rounded up
\* to 0.3, and probability 100.
C18_Witness ==
    /\ Done /\ ValidSeries /\ simulations >= 1 /\ direction = "OVER"
    /\ line < clampMin /\ clampMin % 10 # 0
    /\ \E k \in 1..Len(samples) : samples[k] = Round(clampMin, 10)
    /\ result.probability = Fin(1000)

\* C12: given a fixed rngSeed, two invocations with identical input return
\* identical results in every field, samplesPreview and histogram included.
C12_SameSeedSameResult ==
    (/\ runs # <<>>
     /\ runs[1].pc = "done" /\ runs[2].pc = "done"
     /\ InputOf(runs[1]) = InputOf(runs[2])) =>
        /\ runs[1].result = runs[2].result
        /\ \A f \in DOMAIN runs[1].result :
               runs[1].result[f] = runs[2].result[f]

\* C12 witness: two returned invocations of the same seeded input, whose
\* samples spread over the twelve bins of the histogram.
C12_Witness ==
    /\ runs # <<>>
    /\ runs[1].pc = "done" /\ runs[2].pc = "done"
    /\ InputOf(runs[1]) = InputOf(runs[2])
    /\ runs[1].rngSeed \in Seeds
    /\ Len(runs[1].result.histogram) = BinCount
    /\ runs[1].result.samplesPreview = runs[2].result.samplesPreview

\* C13: whatever the order in which the sampling steps of two seeded
\* invocations are interleaved, each holds after every draw the locals, and
\* at its return the result, that it has when run alone: the generator state
\* and the sample buffer are private to the invocation.
C13_InterleavingIsInvisible ==
    (runs # <<>>) =>
        \A k \in 1..2 :
            /\ (runs[k].pc = "done") => runs[k] = RunAlone(InputOf(runs[k]))
            /\ (runs[k].pc = "loop") =>
                   runs[k] = RunAloneUpTo(InputOf(runs[k]), runs[k].i)

\* C13 witness: the first invocation has returned the result it returns
\* alone while the second, with another seed, is in the middle of its draws.
C13_Witness ==
    /\ runs # <<>>
    /\ runs[1].pc = "done" /\ runs[2].pc = "loop"
    /\ runs[2].i > 0 /\ runs[2].i < runs[2].simulations
    /\ runs[1].rngSeed # runs[2].rngSeed
    /\ runs[1].series = runs[2].series
    /\ runs[1].result = RunAlone(InputOf(runs[1])).result
    /\ runs[1].result.samplesPreview # <<>>

\* C15 (as stated): every standard-deviation helper of the repository
\* returns the same value for the same input (n - 1 in the denominator for
\* two values or more, 0 below two).
C15_HelpersAgree ==
    (sds # <<>>) =>
        \A g, h \in Helpers :
            (sds[g] # NotCalled /\ sds[h] # NotCalled) => sds[g] = sds[h]

\* The input array of the prop, and the places in it of the records whose
\* minutes (the number, or the part before the colon) are above 0.
InputLogs == OrEmpty(logsRaw)
PlayedPlaces ==
    {k \in 1..Len(InputLogs) :
        /\ InputLogs[k].minutes[1] \in {"number", "string"}
        /\ InputLogs[k].minutes[2] > 0}

\* C19: seriesFromLogs returns exactly one series value for each input record
\* whose minutes are above 0 and none for the others; nothing else is dropped
\* and the series is not truncated; an empty or null input gives an empty
\* series.
C19_OneValuePerPlayedGame ==
    (apc \in {"extracted", "sliced"}) =>
        /\ Len(extracted.series) = Cardinality(PlayedPlaces)
        /\ Len(sortedLogs) = Len(extracted.series)
        /\ {sortedLogs[j] : j \in 1..Len(sortedLogs)} = PlayedPlaces
        /\ \A j \in 1..Len(sortedLogs) :
               extracted.series[j] = StatValue(InputLogs[sortedLogs[j]], statType)
        /\ Len(extracted.dates) = Len(extracted.series)
        /\ Len(extracted.minutes) = Len(extracted.series)
        /\ (InputLogs = <<>>) => extracted.series = <<>>

\* C19 witness: an input with numeric and "MM:SS" minutes above 0 and with
\* records of 0 minutes, of "0:45" and of no minutes; four values come out of
\* seven records.
C19_Witness ==
    /\ apc = "extracted"
    /\ Len(InputLogs) = 7
    /\ Len(extracted.series) = 4
    /\ \E k \in PlayedPlaces : InputLogs[k].minutes[1] = "string"
    /\ \E k \in 1..Len(InputLogs) :
           k \notin PlayedPlaces /\ InputLogs[k].minutes = MinutesNumber(0)

\* The day a date string stands for.
DayOf(g) == 10 * g.date[1] + g.date[2]

\* C20: the series is ordered by record date, newest first, records of one
\* date keep their input order, and the truncation to lastN comes after the
\* ordering: the sliced series holds the values of the lastN most recent
\* played games.
C20_NewestFirstStableThenSliced ==
    (apc \in {"extracted", "sliced"}) =>
        /\ \A j, k \in 1..Len(sortedLogs) :
               (j < k) =>
                   /\ DayOf(InputLogs[sortedLogs[j]]) >= DayOf(InputLogs[sortedLogs[k]])
                   /\ (DayOf(InputLogs[sortedLogs[j]]) = DayOf(InputLogs[sortedLogs[k]]))
                          => sortedLogs[j] < sortedLogs[k]
        /\ (apc = "sliced") =>
               /\ Len(slicedSeries) = Min(lastN, Len(extracted.series))
               /\ \A j \in 1..Len(slicedSeries) :
                      /\ slicedSeries[j] = StatValue(InputLogs[sortedLogs[j]], statType)
                      /\ \A k \in PlayedPlaces :
                             DayOf(InputLogs[k]) > DayOf(InputLogs[sortedLogs[j]])
                                 => \E h \in 1..Len(slicedSeries) : sortedLogs[h] = k

\* C20 witness: an input in no date order with two played games on one date;
\* the series is cut to the two most recent games, the first of the two games
\* of that date after the newest.
C20_Witness ==
    /\ apc = "sliced"
    /\ Len(extracted.series) > lastN /\ lastN = 2
    /\ sortedLogs # [k \in 1..Len(sortedLogs) |-> k]
    /\ \E j \in 1..(Len(sortedLogs) - 1) :
           /\ DayOf(InputLogs[sortedLogs[j]]) = DayOf(InputLogs[sortedLogs[j + 1]])
           /\ sortedLogs[j] < sortedLogs[j + 1]
    /\ Len(slicedSeries) = 2

\* Two returned invocations of one series, line, seed, clampMin and
\* simulation count, the first for OVER and the second for UNDER.
OverUnderPair ==
    /\ runs # <<>>
    /\ runs[1].pc = "done" /\ runs[2].pc = "done"
    /\ runs[1].direction = "OVER" /\ runs[2].direction = "UNDER"
    /\ [InputOf(runs[1]) EXCEPT !.direction = "UNDER"] = InputOf(runs[2])

\* The samples of the pair that equal the line.
PairPushes ==
    Cardinality({k \in 1..Len(runs[1].samples) :
                    10 * runs[1].samples[k] = runs[1].line})

\* C30 (as stated): the probability reported for OVER plus the probability
\* reported for UNDER never exceeds 100.
C30_OverPlusUnderAtMost100 ==
    (OverUnderPair /\ runs[1].simulations >= 1) =>
        runs[1].result.probability[2] + runs[2].result.probability[2] <= 1000

\* C30 (amended): for a simulation count >= 1 the two hit counts and the
\* pushes add up to the count, so the unrounded probabilities add up to 100
\* minus the share of pushes; each reported probability is rounded half up to
\* one decimal on its own, so their sum is within 0.1 of that value and is
\* 100.1 at most.
C30_OverPlusUnderWithinRounding ==
    (OverUnderPair /\ runs[1].simulations >= 1) =>
        LET sims == runs[1].simulations
            total == runs[1].result.probability[2] + runs[2].result.probability[2]
            exact == 1000 * (sims - PairPushes)
        IN  /\ runs[1].samples = runs[2].samples
            /\ runs[1].hits + runs[2].hits + PairPushes = sims
            /\ sims * total > exact - sims
            /\ sims * total <= exact + sims
            /\ total <= 1001

\* C30 (amended, counts that draw nothing): with a simulation count of 0 both
\* reported probabilities are NaN, and with a negative count both are 0.
C30_NothingDrawn ==
    (OverUnderPair /\ runs[1].simulations < 1) =>
        /\ runs[1].samples = <<>> /\ runs[2].samples = <<>>
        /\ \A k \in 1..2 :
               runs[k].result.probability =
                   IF runs[k].simulations = 0 THEN NaN ELSE Fin(0)

\* C30 (amended), both parts.
C30_OverPlusUnder == C30_OverPlusUnderWithinRounding /\ C30_NothingDrawn

\* C30 witness: 16 draws of which 7 equal the line; OVER reports 37.5, UNDER
\* 18.8 (18.75 rounded) and the share of pushes is 43.75.
C30_Witness ==
    /\ OverUnderPair
    /\ runs[1].simulations = 16
    /\ PairPushes = 7
    /\ runs[1].result.probability = Fin(375)
    /\ runs[2].result.probability = Fin(188)

\* What a field contributes: its number when it holds a finite number (or a
\* string that reads as one), else 0.
Contribution(g, field) ==
    IF g[field][1] \in {"fin", "numstring"} THEN g[field][2] ELSE 0

\* The field a base stat type is read from: three_pm and turnover when the
\* record has them, else fg3m and tov.
BaseField(g, st) ==
    CASE st = "PTS" -> "pts" [] st = "REB" -> "reb" [] st = "AST" -> "ast"
      [] st = "STL" -> "stl" [] st = "BLK" -> "blk" [] st = "3PA" -> "fg3a"
      [] st = "3PM" -> IF g.three_pm \in {NullField, Missing}
                       THEN "fg3m" ELSE "three_pm"
      [] st = "TO" -> IF g.turnover \in {NullField, Missing}
                      THEN "tov" ELSE "turnover"

\* The base stats a composite stat type adds up.
CompositeParts ==
    [PRA |-> <<"PTS", "REB", "AST">>, PR |-> <<"PTS", "REB">>,
     PA |-> <<"PTS", "AST">>, RA |-> <<"REB", "AST">>]

RECURSIVE SumOfParts(_, _)
SumOfParts(g, parts) ==
    IF parts = <<>> THEN 0
    ELSE Contribution(g, BaseField(g, Head(parts))) + SumOfParts(g, Tail(parts))

\* C21: each surviving record is mapped to the requested stat: a base key to
\* its field, a composite key to the sum of its base stats; a missing, null
\* or non-numeric field contributes 0 and an unknown key yields 0.
C21_StatMapping ==
    (apc \in {"extracted", "sliced"}) =>
        \A j \in 1..Len(sortedLogs) :
            LET g == InputLogs[sortedLogs[j]]
            IN  extracted.series[j] =
                    IF statType \in DOMAIN CompositeParts
                    THEN SumOfParts(g, CompositeParts[statType])
                    ELSE IF statType \in {"PTS", "REB", "AST", "STL", "BLK",
                                          "3PM", "3PA", "TO"}
                    THEN Contribution(g, BaseField(g, statType))
                    ELSE 0

\* C21 witness: PRA of a record whose reb is missing and whose ast is null is
\* its pts alone.
C21_Witness ==
    /\ apc = "extracted" /\ statType = "PRA"
    /\ \E j \in 1..Len(sortedLogs) :
           LET g == InputLogs[sortedLogs[j]]
           IN  /\ g.reb = Missing /\ g.ast = NullField
               /\ g.pts = Fin(12)
               /\ extracted.series[j] = 12

\* C22 (as stated): every value of a series that seriesFromLogs produces is
\* finite and >= 0 (finite by construction here: a value is a whole number).
C22_SeriesValuesNonNegative ==
    (apc \in {"extracted", "sliced"}) =>
        \A j \in 1..Len(extracted.series) :
            extracted.series[j] \in Int /\ extracted.series[j] >= 0

\* The list analyzeSlate returned.
Returned == outcome[1] = "fulfilled"
ReturnedList == outcome[2]

\* C23: the returned list is ordered by confidence descending, then edge
\* descending: of two consecutive entries the earlier has the higher
\* confidence, or the same confidence and an edge at least the later one's.
C23_RankedOrder ==
    Returned =>
        \A k \in 1..(Len(ReturnedList) - 1) :
            LET a == ReturnedList[k].result
                b == ReturnedList[k + 1].result
            IN  \/ a.confidence > b.confidence
                \/ a.confidence = b.confidence /\ a.edge >= b.edge

\* A returned list the sort has reordered, by confidence and by edge.
C23_Witness ==
    /\ Returned
    /\ Len(ReturnedList) = 2
    /\ ReturnedList[1].prop.id > ReturnedList[2].prop.id
    /\ ReturnedList[1].result.confidence = ReturnedList[2].result.confidence
    /\ ReturnedList[1].result.edge > ReturnedList[2].result.edge

\* C24 as stated: every returned entry has between min(5, lastN) and lastN
\* games, and the engine never runs on an empty series.
C24_SeriesLengthBounds ==
    /\ \A k \in 1..Len(engineCalls) : engineCalls[k] # <<>>
    /\ Returned =>
         \A k \in 1..Len(ReturnedList) :
            LET e == ReturnedList[k]
            IN  /\ Len(e.series) >= Min(5, LastNOf(e.prop))
                /\ Len(e.series) <= LastNOf(e.prop)

\* The upstream calls the loop makes for a prop, read off the prop itself.
SearchFails(p) == p.playerId = "" /\ p.search = "throws"
NobodyFound(p) == p.playerId = "" /\ p.search = "none"
LogsFail(p) == ~SearchFails(p) /\ ~NobodyFound(p) /\ p.gamelogs = "throws"
UpstreamFails(p) == SearchFails(p) \/ LogsFail(p)
PlayableGames(p) == Len(seriesFromLogs(p.logs, p.statType).series)
Skipped(p) ==
    NobodyFound(p) \/ Len(Slice([j \in 1..PlayableGames(p) |-> j], LastNOf(p)))
                        < Min(5, LastNOf(p))
IdsOf(list) == {list[k].prop.id : k \in 1..Len(list)}

\* C29: when an upstream call throws for a prop the loop reaches, the promise
\* rejects and no list is returned, whatever was ranked before; a returned
\* list holds exactly the props that were not skipped for an unresolvable
\* player or too few games.
C29_ThrowRejectsAll ==
    /\ \A k \in 1..Len(props) : k < propIndex => ~UpstreamFails(props[k])
    /\ outcome[1] = "rejected" =>
            /\ propIndex <= Len(props)
            /\ UpstreamFails(props[propIndex])
    /\ Returned =>
            /\ \A k \in 1..Len(props) : ~UpstreamFails(props[k])
            /\ IdsOf(ReturnedList)
                 = {k \in 1..Len(props) : ~Skipped(props[k])}
            /\ Len(ReturnedList) = Cardinality(IdsOf(ReturnedList))

\* The promise rejected after an earlier prop had been ranked.
C29_Witness ==
    /\ outcome[1] = "rejected"
    /\ Len(ranked) >= 1

C26_EveryAttemptErrorReturned ==
    (fetchReturn.returned /\ ~fetchReturn.ok) =>
        \A k \in 1..Len(attemptErrors) : attemptErrors[k] = fetchReturn.json

\* The playable final games among the rows of the first k page responses.
RECURSIVE ValidThrough(_)
ValidThrough(k) ==
    IF k = 0 THEN 0
    ELSE ValidThrough(k - 1)
         + Cardinality({j \in 1..Len(pagesRequested[k].response.rows) :
              LET s == pagesRequested[k].response.rows[j]
              IN  s.status = "Final" /\ s.min[1] # "undefined" /\ s.min[2] > 0})

\* C27: the handler sends at most lastN logs, lastN within 1..50, each of a
\* final game with minutes > 0; it requests pages 1, 2, ... up to at most 10,
\* and none after lastN valid logs were collected, after an empty page or
\* after a response that was not OK.
C27_PaginationBounded ==
    LET lim == ClampedLastN(lastNRaw)
    IN  /\ lim >= 1 /\ lim <= 50
        /\ Len(pagesRequested) <= 10
        /\ \A k \in 1..Len(pagesRequested) :
             /\ pagesRequested[k].page = k
             /\ k < Len(pagesRequested) =>
                  /\ pagesRequested[k].response.ok
                  /\ pagesRequested[k].response.rows # <<>>
                  /\ ValidThrough(k) < lim
        /\ reply.sent =>
             /\ Len(reply.data) <= lim
             /\ \A k \in 1..Len(reply.data) :
                  reply.data[k].status = "Final" /\ reply.data[k].minutes > 0

\* Two logs were asked for; the second page supplied the second one and a
\* third playable game was left out.
C27_Witness ==
    /\ reply.sent
    /\ ClampedLastN(lastNRaw) = 2
    /\ Len(reply.data) = 2
    /\ Len(pagesRequested) = 2
    /\ ValidThrough(2) = 4

\* The rows collected through the k-th response.
RECURSIVE RowsThrough(_)
RowsThrough(k) == IF k = 0 THEN 0 ELSE RowsThrough(k - 1) + rowsFetched[k].rows

\* C28: the loop ends after at most 6 upstream requests whatever cursors come
\* back, no request follows a response without next_cursor or one that brought
\* the rows collected to 250, and the response reports at most 10 games.
C28_LoopSafety ==
    /\ requestCount <= 6
    /\ Len(rowsFetched) <= requestCount
    /\ \A k \in 1..Len(rowsFetched) :
         k < requestCount =>
              /\ rowsFetched[k].next # Missing
              /\ RowsThrough(k) < 250
    /\ answer.sent => answer.games <= 10

C28_LoopTerminates == []C28_LoopSafety /\ <>(answer.sent)

\* The loop stopped on plenty of rows with a cursor still offered, and more
\* than 10 usable rows were at hand.
C28_Witness ==
    /\ answer.sent
    /\ requestCount = 4
    /\ Len(rowsFetched) = 4
    /\ RowsThrough(4) = 300
    /\ rowsFetched[4].next # Missing
    /\ answer.games = 10

====
